---------------------------- MODULE Spec2Model ----------------------------
(***************************************************************************)
(* cf-utils: the stack reconciler of cloudFormation.js (upsertStack,       *)
(* deleteStack, pollStack, pollChangeSet and the change-set helpers) and   *)
(* the bucket-emptying routine of s3.js (emptyBucket,                      *)
(* deleteVersionedObjects), as one state machine.                          *)
(*                                                                         *)
(* Every AWS SDK call is asynchronous: the call is issued by the handler   *)
(* that runs before it, and its callback is one action of the model.  The  *)
(* provider (CloudFormation, S3) is the environment: what a call answers   *)
(* is chosen with \E among the answers the provider can give.              *)
(***************************************************************************)
EXTENDS Integers, Sequences, FiniteSets, TLC

VARIABLES
  op,            \* the exported function that was invoked
  promise,       \* state of the promise the invocation returned
  value,         \* what that promise settled with
  stack,         \* provider: the CloudFormation stack record
  cfCalls,       \* CloudFormation API calls issued so far, by operation
  pollPc,        \* pollStack: "idle", "describe" (call in flight), "timer", "done"
  pollPromise,   \* pollStack: state of the promise pollStack returned
  pollValue,     \* pollStack: what that promise settled with
  pollLast,      \* pollStack: the answer of the last describeStacks of the poll
  pollSeen,      \* pollStack: answers of the poll that were neither terminal nor an error
  pollTimers,    \* pollStack: timers scheduled by the poll
  pollDescribes, \* pollStack: describeStacks calls issued by the poll
  waitedMs,      \* pollStack: total delay of the timers that fired
  bucket,        \* provider: the S3 buckets, by name
  bucket0,       \* the buckets as they were when the function was invoked
  eb,            \* emptyBucket: the state of the emptyBucket call on each bucket
  probe,         \* deleteStack, upsertStack: the answer of the first describeStacks
  dsPc,          \* deleteStack: "idle", "describe", "emptying", "deleting", "polling", "done"
  req,           \* upsertStack: the arguments and the template file
  us,            \* upsertStack: the state of the invocation
  call,          \* upsertStack: 1 in the first invocation, 2 in the one that follows it
  stack1,        \* upsertStack: the stack as it was when the invocation began
  cs,            \* provider: the change sets of the stack, by name
  csPoll,        \* pollChangeSet: the state of the poll
  cli,           \* deployStack: the aws command and what became of it
  cw,            \* cloudWatch deleteLogGroups: the log groups and the invocation
  lam,           \* lambda updateFunctionsCode: the functions and the invocation
  iot,           \* iot updateIoTPolicies: the policies and the invocation
  legacy         \* src/src/cloudFormation.js: the invocation of upsertStack,
                 \* pollStack or pollChangeSet of that module

pollVars == <<pollPc, pollPromise, pollValue, pollLast, pollSeen, pollTimers,
              pollDescribes, waitedMs>>

usVars == <<req, us, call, stack1>>

csVars == <<cs, csPoll>>

sideVars == <<cw, lam, iot, legacy>>

vars == <<op, promise, value, stack, cfCalls, pollVars, bucket, bucket0, eb, probe, dsPc,
          usVars, csVars, cli, sideVars>>

\* the variables of cloudFormation.js and s3.js but op, promise and value
cfVars == <<stack, cfCalls, pollVars, bucket, bucket0, eb, probe, dsPc, usVars, csVars, cli>>

-----------------------------------------------------------------------------
(* Bounds of the model *)

\* the provider answers at most MaxWait describes of one poll with a
\* status pollStack keeps waiting on
MaxWait == 3

\* objects a listObjectsV2 answer holds at most (1000 at the provider)
PageSize == 2

\* objects in a bucket without versioning, at most
MaxObjects == 5

\* keys in a bucket with versioning, at most
MaxVersionedKeys == 2

\* versions of one key in a bucket with versioning, at most
MaxVersions == 3

\* 'data' events of the standard error of the aws command, at most
MaxChunks == 2

\* log groups that match the filter, at most
MaxLogGroups == 4

\* log groups a describeLogGroups answer holds at most (50 at the provider)
LogPageSize == 2

\* answers of describeLogGroups without log groups but with a nextToken, at most
MaxEmptyPages == 1

\* Lambda functions of the account, at most
MaxFunctions == 4

\* functions a listFunctions answer holds at most (50 at the provider)
FunctionPageSize == 2

\* output keys of the stack that include 'IoTPolicyTemplate', at most
MaxPolicies == 2

\* non-default versions of an IoT policy, at most (4 at the provider)
MaxOldVersions == 2

-----------------------------------------------------------------------------
(* Strings.  A message is the sequence of its words, so that indexOf is    *)
(* computed and not assumed.                                               *)

\* String.prototype.indexOf: 0-based position of the first occurrence, -1 if none
IndexOf(msg, phrase) ==
  LET hits == { i \in 1..(Len(msg) - Len(phrase) + 1) :
                  SubSeq(msg, i, i + Len(phrase) - 1) = phrase }
  IN  IF hits = {} THEN -1
      ELSE (CHOOSE i \in hits : \A j \in hits : i <= j) - 1

\* JavaScript truthiness of a number: every number but 0 (and NaN) is truthy
Truthy(n) == n # 0

DoesNotExist == <<"does", "not", "exist">>

\* Messages of the errors the CloudFormation API answers with
StackNotFoundMsg == <<"Stack", "with", "id", "app-stack", "does", "not", "exist">>
ThrottlingMsg    == <<"Rate", "exceeded">>
AccessDeniedMsg  == <<"User", "is", "not", "authorized">>

TransportErrors == {ThrottlingMsg, AccessDeniedMsg}

-----------------------------------------------------------------------------
(* Stack statuses *)

SuccessStatuses == {"CREATE_COMPLETE", "UPDATE_COMPLETE"}

FailureStatuses == {"ROLLBACK_COMPLETE", "CREATE_FAILED", "UPDATE_FAILED",
                    "DELETE_FAILED", "UPDATE_ROLLBACK_COMPLETE"}

\* every other status of the CloudFormation API
OtherStatuses == {"CREATE_IN_PROGRESS", "UPDATE_IN_PROGRESS", "DELETE_IN_PROGRESS",
                  "ROLLBACK_IN_PROGRESS", "UPDATE_ROLLBACK_IN_PROGRESS",
                  "UPDATE_COMPLETE_CLEANUP_IN_PROGRESS", "REVIEW_IN_PROGRESS",
                  "ROLLBACK_FAILED", "UPDATE_ROLLBACK_FAILED", "DELETE_COMPLETE"}

StackStatuses == SuccessStatuses \cup FailureStatuses \cup OtherStatuses

Absent == "ABSENT"

\* What the provider does to a stack on its own: the statuses that follow a status
Lifecycle(s) ==
  CASE s = "CREATE_IN_PROGRESS"   -> {"CREATE_COMPLETE", "CREATE_FAILED", "ROLLBACK_IN_PROGRESS"}
    [] s = "ROLLBACK_IN_PROGRESS" -> {"ROLLBACK_COMPLETE", "ROLLBACK_FAILED"}
    [] s = "UPDATE_IN_PROGRESS"   -> {"UPDATE_COMPLETE_CLEANUP_IN_PROGRESS", "UPDATE_FAILED",
                                      "UPDATE_ROLLBACK_IN_PROGRESS"}
    [] s = "UPDATE_COMPLETE_CLEANUP_IN_PROGRESS" -> {"UPDATE_COMPLETE"}
    [] s = "UPDATE_ROLLBACK_IN_PROGRESS" -> {"UPDATE_ROLLBACK_COMPLETE", "UPDATE_ROLLBACK_FAILED"}
    [] s = "DELETE_IN_PROGRESS"   -> {Absent, "DELETE_FAILED"}
    [] OTHER -> {}

LifecycleStep(S) == S \cup UNION { Lifecycle(s) : s \in S }

\* The statuses a stack in status s can have by the time of the next describe.
\* Under pollStack invoked on its own the stack is a scripted double: any
\* status may follow any status.
Reach(s) ==
  IF op = "pollStack" THEN StackStatuses \cup {Absent}
  ELSE LifecycleStep(LifecycleStep(LifecycleStep({s})))

\* The stack once the provider brought it to status s: the template of the
\* operation in progress is the deployed one when the operation completes
StackAfter(st, s) ==
  [st EXCEPT !.status = s,
             !.prev = "none",
             !.tmpl = IF s # st.status /\ s \in {"CREATE_COMPLETE", "UPDATE_COMPLETE",
                                                  "UPDATE_COMPLETE_CLEANUP_IN_PROGRESS"}
                      THEN st.target ELSE @]

-----------------------------------------------------------------------------
(* Values a promise settles with, and the answers of describeStacks *)

NoError == <<>>

Undefined      == [kind |-> "undefined", msg |-> NoError, status |-> Absent, outputs |-> {}]
ErrorOf(m)     == [kind |-> "error", msg |-> m, status |-> Absent, outputs |-> {}]
StringOf(m)    == [kind |-> "string", msg |-> m, status |-> Absent, outputs |-> {}]
StackData(s, o) == [kind |-> "data", msg |-> NoError, status |-> s, outputs |-> o]

StackOperationFailed == <<"Stack", "operation", "failed">>

\* The answers cf.describeStacks can give now: an error (err) or the stack
\* (status); now is the status the provider's stack has after the answer.
\* The first describe after the provider accepted an operation on an
\* existing stack may still be served the description the stack had before
\* (prev): the read is not ordered after the write.
DescribeAnswers ==
  { [err |-> m, status |-> Absent, now |-> stack.status] : m \in TransportErrors }
  \cup { [err |-> IF s = Absent THEN StackNotFoundMsg ELSE NoError,
          status |-> s, now |-> s] : s \in Reach(stack.status) }
  \cup { [err |-> NoError, status |-> s, now |-> stack.status] :
          s \in {stack.prev} \ {"none"} }

\* A promise settles once: resolve and reject of a settled promise do nothing
Settle(how, v) ==
  IF promise = "pending"
  THEN promise' = how /\ value' = v
  ELSE UNCHANGED <<promise, value>>

CfOperations == {"describeStacks", "createStack", "updateStack", "deleteStack",
                 "createChangeSet", "describeChangeSet", "executeChangeSet",
                 "deleteChangeSet"}

NoCalls == [o \in CfOperations |-> 0]

Count(calls, name) == [calls EXCEPT ![name] = @ + 1]

-----------------------------------------------------------------------------
(* pollStack *)

PollDelay == 5000

\* pollStack with DELETE_FAILED missing from the failure cases of the switch
PollStackOutcomeNoDeleteFailed(a) ==
  IF a.err # NoError
  THEN IF IndexOf(a.err, DoesNotExist) >= 0 THEN "resolve_empty" ELSE "reject_err"
  ELSE CASE a.status \in {"CREATE_COMPLETE", "UPDATE_COMPLETE"} -> "resolve_data"
         [] a.status \in {"ROLLBACK_COMPLETE", "CREATE_FAILED", "UPDATE_FAILED",
                          "UPDATE_ROLLBACK_COMPLETE"} -> "reject_failed"
         [] OTHER -> "wait"

\* pollStack testing indexOf for truth, as deleteStack does
PollStackOutcomeTruthy(a) ==
  IF a.err # NoError
  THEN IF Truthy(IndexOf(a.err, DoesNotExist)) THEN "resolve_empty" ELSE "reject_err"
  ELSE CASE a.status \in {"CREATE_COMPLETE", "UPDATE_COMPLETE"} -> "resolve_data"
         [] a.status \in {"ROLLBACK_COMPLETE", "CREATE_FAILED", "UPDATE_FAILED",
                          "DELETE_FAILED", "UPDATE_ROLLBACK_COMPLETE"} -> "reject_failed"
         [] OTHER -> "wait"

\* pollStack taking ROLLBACK_FAILED and UPDATE_ROLLBACK_FAILED for failures
PollStackOutcomeRollbackFailed(a) ==
  IF a.err # NoError
  THEN IF IndexOf(a.err, DoesNotExist) >= 0 THEN "resolve_empty" ELSE "reject_err"
  ELSE CASE a.status \in {"CREATE_COMPLETE", "UPDATE_COMPLETE"} -> "resolve_data"
         [] a.status \in {"ROLLBACK_COMPLETE", "CREATE_FAILED", "UPDATE_FAILED",
                          "DELETE_FAILED", "UPDATE_ROLLBACK_COMPLETE",
                          "ROLLBACK_FAILED", "UPDATE_ROLLBACK_FAILED"} -> "reject_failed"
         [] OTHER -> "wait"

\* The callback of describeStacks in pollStack: what it does with an answer
PollStackOutcome(a) ==
  IF a.err # NoError
  THEN IF IndexOf(a.err, DoesNotExist) >= 0 THEN "resolve_empty" ELSE "reject_err"
  ELSE CASE a.status \in {"CREATE_COMPLETE", "UPDATE_COMPLETE"} -> "resolve_data"
         [] a.status \in {"ROLLBACK_COMPLETE", "CREATE_FAILED", "UPDATE_FAILED",
                          "DELETE_FAILED", "UPDATE_ROLLBACK_COMPLETE"} -> "reject_failed"
         [] OTHER -> "wait"

NoAnswer == [err |-> NoError, status |-> "NONE"]

\* pollStack(params) is called: a promise is made and describeStacks issued
PollStackCalled ==
  /\ pollPc' = "describe"
  /\ pollPromise' = "pending"
  /\ pollDescribes' = pollDescribes + 1

\* cf.describeStacks calls back in pollStack.  The promise of the invocation
\* was resolved with the promise of pollStack and settles as it does.
PollStackDescribed ==
  /\ pollPc = "describe"
  /\ \E a \in DescribeAnswers :
       LET o == PollStackOutcome(a)
           v == CASE o = "resolve_empty" -> Undefined
                  [] o = "reject_err"    -> ErrorOf(a.err)
                  [] o = "resolve_data"  -> StackData(a.status, stack.outputs)
                  [] o = "reject_failed" -> ErrorOf(StackOperationFailed)
                  [] OTHER               -> Undefined
           how == IF o \in {"resolve_empty", "resolve_data"} THEN "resolved" ELSE "rejected"
       IN
       /\ o = "wait" => pollSeen < MaxWait
       /\ stack' = StackAfter(stack, a.now)
       /\ pollLast' = [err |-> a.err, status |-> a.status]
       /\ IF o = "wait"
          THEN /\ pollPc' = "timer"
               /\ pollSeen' = pollSeen + 1
               /\ pollTimers' = pollTimers + 1
               /\ UNCHANGED <<promise, value, pollPromise, pollValue>>
          ELSE /\ pollPc' = "done"
               /\ pollPromise' = how
               /\ pollValue' = v
               /\ Settle(how, v)
               /\ UNCHANGED <<pollSeen, pollTimers>>
  /\ UNCHANGED <<op, sideVars, cli, cfCalls, pollDescribes, waitedMs, bucket, bucket0, eb, probe, dsPc,
                 usVars, csVars>>

\* pollStack calling itself again without a delay
PollStackTimeoutNoDelay ==
  /\ pollPc = "timer"
  /\ waitedMs' = waitedMs
  /\ PollStackCalled
  /\ cfCalls' = Count(cfCalls, "describeStacks")
  /\ UNCHANGED <<op, sideVars, cli, promise, value, stack, pollValue, pollLast, pollSeen, pollTimers,
                 bucket, bucket0, eb, probe, dsPc, usVars, csVars>>

\* The timer set by pollStack fires: pollStack(params) is called again and
\* the promise of the first call is resolved with the promise of the second
PollStackTimeout ==
  /\ pollPc = "timer"
  /\ waitedMs' = waitedMs + PollDelay
  /\ PollStackCalled
  /\ cfCalls' = Count(cfCalls, "describeStacks")
  /\ UNCHANGED <<op, sideVars, cli, promise, value, stack, pollValue, pollLast, pollSeen, pollTimers,
                 bucket, bucket0, eb, probe, dsPc, usVars, csVars>>

PollIdle ==
  /\ pollPc = "idle"
  /\ pollPromise = "none"
  /\ pollValue = Undefined
  /\ pollLast = NoAnswer
  /\ pollSeen = 0
  /\ pollTimers = 0
  /\ pollDescribes = 0
  /\ waitedMs = 0

-----------------------------------------------------------------------------
(* S3: the provider's buckets *)

BucketNames == {"b1", "b2"}

\* err.toString() of the errors the S3 API answers with
NoSuchBucketErr == <<"NoSuchBucket", ":", "The", "specified", "bucket", "does", "not", "exist">>
AccessDeniedErr == <<"AccessDenied", ":", "Access", "Denied">>

BucketDoesNotExist == <<"The", "specified", "bucket", "does", "not", "exist">>

\* The objects of a bucket: the number of versions of each key it holds
Restrict(f, S) == [k \in S |-> f[k]]

\* One listObjectsV2 answer: the first PageSize keys after the continuation
\* token, and NextContinuationToken (0: none) when keys remain after them
ListPage(objs, token) ==
  LET after == { k \in DOMAIN objs : k > token }
      page  == { k \in after : Cardinality({ j \in after : j < k }) < PageSize }
  IN  [contents |-> page,
       next |-> IF Cardinality(after) > PageSize
                THEN CHOOSE k \in page : \A j \in page : j <= k
                ELSE 0]

NoBucket == [exists |-> FALSE, versioning |-> "Off", objs |-> <<>>]

\* The buckets emptyBucket can meet: none, one without versioning holding up to
\* MaxObjects objects, one with versioning holding up to MaxVersionedKeys keys
\* of up to MaxVersions versions each
Buckets ==
  {NoBucket}
  \cup { [exists |-> TRUE, versioning |-> "Off", objs |-> [k \in 1..n |-> 1]] :
           n \in 0..MaxObjects }
  \cup UNION { { [exists |-> TRUE, versioning |-> "Enabled", objs |-> f] :
                  f \in [1..n -> 1..MaxVersions] } : n \in 0..MaxVersionedKeys }

\* The answers an S3 call on bucket b can give: an error, or NoError for data
S3Answers(b) ==
  IF bucket[b].exists THEN {NoError, AccessDeniedErr} ELSE {NoSuchBucketErr}

\* The answers s3.listObjectsV2 on bucket b can give: those of any S3 call,
\* and 'does not exist' for a bucket without objects, which someone else may
\* have deleted since the call before
ListAnswers(b) ==
  S3Answers(b)
  \cup (IF bucket[b].exists /\ DOMAIN bucket[b].objs = {} THEN {NoSuchBucketErr} ELSE {})

-----------------------------------------------------------------------------
(* emptyBucket and deleteVersionedObjects (s3.js) *)

EbIdle == [pc |-> "idle", promise |-> "none", value |-> Undefined,
           enabled |-> FALSE, round |-> 0, token |-> 0, page |-> {}, next |-> 0,
           dvo |-> "none", kpc |-> <<>>, kround |-> <<>>, knext |-> <<>>,
           lists |-> 0, deletes |-> 0, vlists |-> 0, failed |-> {}]

\* emptyBucket(bucketName) is called: getBucketVersioning is issued
EmptyBucketCalled == [EbIdle EXCEPT !.pc = "versioning", !.promise = "pending"]

\* emptyBucket listing a second time whatever the first listAndDelete() gave
EmptyBucketThenAlwaysSecond(e, token) ==
  IF e.round = 1
  THEN [e EXCEPT !.round = 2, !.pc = "list", !.token = token, !.lists = @ + 1]
  ELSE [e EXCEPT !.pc = "done", !.promise = "resolved", !.value = Undefined]

\* emptyBucket, after the promise of the first listAndDelete() resolved with
\* token, or the promise of the second resolved (lines 181-188)
EmptyBucketThen(e, token) ==
  IF e.round = 1 /\ Truthy(token)
  THEN [e EXCEPT !.round = 2, !.pc = "list", !.token = token, !.lists = @ + 1]
  ELSE [e EXCEPT !.pc = "done", !.promise = "resolved", !.value = Undefined]

\* The keys /.*Bucket$/ matches: the last word of the key is Bucket
MatchesBucket(key) == Len(key) > 0 /\ key[Len(key)] = "Bucket"

\* The buckets deleteStack empties: the values of the outputs whose key matches
MatchingBuckets == { o.value : o \in { x \in stack.outputs : MatchesBucket(x.key) } }

\* deleteStack going on to cf.deleteStack as soon as one emptyBucket resolved
\* (Promise.race in the place of Promise.all)
EmptyBucketStepRace(b, e) ==
  /\ eb' = [eb EXCEPT ![b] = e]
  /\ IF op = "emptyBucket"
     THEN /\ IF e.promise \in {"resolved", "rejected"}
             THEN Settle(e.promise, e.value)
             ELSE UNCHANGED <<promise, value>>
          /\ UNCHANGED <<dsPc, cfCalls>>
     ELSE IF dsPc = "emptying" /\ e.promise = "rejected"
     THEN /\ Settle("rejected", e.value)
          /\ dsPc' = "done"
          /\ UNCHANGED cfCalls
     ELSE IF dsPc = "emptying" /\ e.promise = "resolved"
     THEN /\ dsPc' = "deleting"
          /\ cfCalls' = Count(cfCalls, "deleteStack")
          /\ UNCHANGED <<promise, value>>
     ELSE UNCHANGED <<promise, value, dsPc, cfCalls>>
  /\ UNCHANGED <<op, sideVars, cli, stack, pollVars, bucket0, probe, usVars, csVars>>

\* What follows a step of emptyBucket(b) in the caller.  In deleteStack,
\* Promise.all(s3Operations) rejects with the first rejection and resolves
\* when every emptyBucket resolved; then cf.deleteStack is issued.
EmptyBucketStep(b, e) ==
  /\ eb' = [eb EXCEPT ![b] = e]
  /\ IF op = "emptyBucket"
     THEN /\ IF e.promise \in {"resolved", "rejected"}
             THEN Settle(e.promise, e.value)
             ELSE UNCHANGED <<promise, value>>
          /\ UNCHANGED <<dsPc, cfCalls>>
     ELSE IF dsPc = "emptying" /\ e.promise = "rejected"
     THEN /\ Settle("rejected", e.value)
          /\ dsPc' = "done"
          /\ UNCHANGED cfCalls
     ELSE IF dsPc = "emptying"
             /\ \A m \in MatchingBuckets : [eb EXCEPT ![b] = e][m].promise = "resolved"
     THEN /\ dsPc' = "deleting"
          /\ cfCalls' = Count(cfCalls, "deleteStack")
          /\ UNCHANGED <<promise, value>>
     ELSE UNCHANGED <<promise, value, dsPc, cfCalls>>
  /\ UNCHANGED <<op, sideVars, cli, stack, pollVars, bucket0, probe, usVars, csVars>>

\* s3.getBucketVersioning calls back in emptyBucket
EmptyBucketVersioning(b) ==
  /\ eb[b].pc = "versioning"
  /\ \E err \in S3Answers(b), status \in {bucket[b].versioning} :
       LET e == eb[b] IN
       /\ EmptyBucketStep(b,
            IF err # NoError
            THEN IF IndexOf(err, BucketDoesNotExist) >= 0
                 THEN [e EXCEPT !.pc = "done", !.promise = "resolved", !.value = Undefined]
                 ELSE [e EXCEPT !.pc = "done", !.promise = "rejected", !.value = ErrorOf(err),
                                !.failed = @ \cup {"getBucketVersioning"}]
            ELSE [e EXCEPT !.enabled = (status = "Enabled"), !.pc = "list",
                           !.round = 1, !.token = 0, !.lists = @ + 1])
  /\ UNCHANGED bucket

\* deleteVersionedObjects(bucketName, keys) is called: listAndDelete(key)
\* issues listObjectVersions for every key at once
DeleteVersionedObjectsCalled(e, keys, next) ==
  [e EXCEPT !.pc = "versioned", !.page = keys, !.next = next, !.dvo = "pending",
            !.kpc = [k \in keys |-> "list"], !.kround = [k \in keys |-> 1],
            !.knext = [k \in keys |-> FALSE],
            !.vlists = @ + Cardinality(keys)]

\* s3.listObjectsV2 calls back in listAndDelete of emptyBucket
EmptyBucketListed(b) ==
  /\ eb[b].pc = "list"
  /\ \E err \in ListAnswers(b) :
       LET e    == eb[b]
           data == ListPage(bucket[b].objs, e.token)
       IN
       /\ bucket' = IF err = NoSuchBucketErr THEN [bucket EXCEPT ![b] = NoBucket] ELSE bucket
       /\ EmptyBucketStep(b,
            IF err # NoError
            THEN [e EXCEPT !.pc = "done", !.promise = "rejected", !.value = ErrorOf(err),
                           !.failed = @ \cup {"listObjects"}]
            ELSE IF data.contents # {}
            THEN IF e.enabled
                 THEN DeleteVersionedObjectsCalled(e, data.contents, data.next)
                 ELSE [e EXCEPT !.pc = "delete", !.page = data.contents,
                                !.next = data.next, !.deletes = @ + 1]
            ELSE EmptyBucketThen(e, 0))

\* s3.deleteObjects calls back in deleteObjects called by listAndDelete of
\* emptyBucket.  Nothing handles the rejection of that promise: the promise
\* of listAndDelete stays pending.
EmptyBucketDeleted(b) ==
  /\ eb[b].pc = "delete"
  /\ \E err \in S3Answers(b) :
       LET e == eb[b] IN
       IF err # NoError
       THEN /\ EmptyBucketStep(b, [e EXCEPT !.pc = "hung", !.failed = @ \cup {"deleteObjects"}])
            /\ UNCHANGED bucket
       ELSE /\ bucket' = [bucket EXCEPT ![b].objs = Restrict(@, DOMAIN @ \ e.page)]
            /\ EmptyBucketStep(b, EmptyBucketThen(e, e.next))

\* deleteVersionedObjects, after the promise of the first listAndDelete(key)
\* resolved with token, or the promise of the second resolved (lines 124-135);
\* Promise.all resolves when the promise of every key resolved, and
\* listAndDelete of emptyBucket goes on with the NextContinuationToken
DeleteVersionedObjectsThen(e, k, token) ==
  IF e.kround[k] = 1 /\ token
  THEN [e EXCEPT !.kround[k] = 2, !.kpc[k] = "list", !.vlists = @ + 1]
  ELSE LET r == [e EXCEPT !.kpc[k] = "resolved"] IN
       IF r.dvo = "pending" /\ \A j \in DOMAIN r.kpc : r.kpc[j] = "resolved"
       THEN EmptyBucketThen([r EXCEPT !.dvo = "resolved"], r.next)
       ELSE r

\* The versions of key k a bucket holds
VersionsOf(objs, k) == IF k \in DOMAIN objs THEN objs[k] ELSE 0

\* s3.listObjectVersions (Prefix key, MaxKeys 1) calls back in listAndDelete
\* of deleteVersionedObjects.  A rejection rejects Promise.all and
\* deleteVersionedObjects; nothing in emptyBucket handles that rejection.
DeleteVersionedObjectsListed(b, k) ==
  /\ k \in DOMAIN eb[b].kpc
  /\ eb[b].kpc[k] = "list"
  /\ \E err \in S3Answers(b) :
       LET e == eb[b]
           n == VersionsOf(bucket[b].objs, k)
       IN
       /\ EmptyBucketStep(b,
            IF err # NoError
            THEN [e EXCEPT !.kpc[k] = "rejected",
                           !.failed = @ \cup {"listObjectVersions"},
                           !.dvo = IF @ = "pending" THEN "rejected" ELSE @,
                           !.pc = IF e.dvo = "pending" THEN "hung" ELSE @]
            ELSE IF n > 0
            THEN [e EXCEPT !.kpc[k] = "delete", !.knext[k] = (n > 1), !.deletes = @ + 1]
            ELSE DeleteVersionedObjectsThen(e, k, FALSE))
  /\ UNCHANGED bucket

\* s3.deleteObjects calls back in deleteObjects called by listAndDelete of
\* deleteVersionedObjects.  Nothing handles the rejection of that promise:
\* the promise of listAndDelete(key) stays pending.
DeleteVersionedObjectsDeleted(b, k) ==
  /\ k \in DOMAIN eb[b].kpc
  /\ eb[b].kpc[k] = "delete"
  /\ \E err \in S3Answers(b) :
       LET e == eb[b]
           n == VersionsOf(bucket[b].objs, k)
       IN
       IF err # NoError
       THEN /\ EmptyBucketStep(b, [e EXCEPT !.kpc[k] = "hung",
                                            !.failed = @ \cup {"deleteObjects"}])
            /\ UNCHANGED bucket
       ELSE /\ bucket' = [bucket EXCEPT ![b].objs =
                            IF n > 1 THEN [@ EXCEPT ![k] = n - 1]
                            ELSE Restrict(@, DOMAIN @ \ {k})]
            /\ EmptyBucketStep(b, DeleteVersionedObjectsThen(e, k, e.knext[k]))

-----------------------------------------------------------------------------
(* deleteStack (cloudFormation.js) *)

\* The answers cf.deleteStack, cf.createStack, ... can give besides their own
TransportAnswers == {NoError} \cup TransportErrors

\* deleteStack treating every error of the first describe as a failure
DeleteStackDescribedStrict ==
  /\ dsPc = "describe"
  /\ \E a \in DescribeAnswers :
       /\ stack' = StackAfter(stack, a.now)
       /\ probe' = [err |-> a.err, status |-> a.status]
       /\ IF a.err # NoError
          THEN /\ Settle("rejected", ErrorOf(a.err))
               /\ dsPc' = "done"
               /\ UNCHANGED <<eb, cfCalls>>
          ELSE /\ eb' = [b \in BucketNames |->
                          IF b \in MatchingBuckets THEN EmptyBucketCalled ELSE eb[b]]
               /\ IF MatchingBuckets = {}
                  THEN /\ dsPc' = "deleting"
                       /\ cfCalls' = Count(cfCalls, "deleteStack")
                  ELSE /\ dsPc' = "emptying"
                       /\ UNCHANGED cfCalls
               /\ UNCHANGED <<promise, value>>
  /\ UNCHANGED <<op, sideVars, cli, pollVars, bucket, bucket0, usVars, csVars>>

\* cf.describeStacks calls back in deleteStack.  On an error the callback
\* tests err.message.indexOf('does not exist') for truthiness, calls
\* resolve() if it is truthy, and calls reject(err) in either case.
\* Otherwise emptyBucket is called for every matching output, in the loop,
\* and Promise.all of no promise resolves at once.
DeleteStackDescribed ==
  /\ dsPc = "describe"
  /\ \E a \in DescribeAnswers :
       /\ stack' = StackAfter(stack, a.now)
       /\ probe' = [err |-> a.err, status |-> a.status]
       /\ IF a.err # NoError
          THEN /\ IF Truthy(IndexOf(a.err, DoesNotExist))
                  THEN Settle("resolved", Undefined)
                  ELSE Settle("rejected", ErrorOf(a.err))
               /\ dsPc' = "done"
               /\ UNCHANGED <<eb, cfCalls>>
          ELSE /\ eb' = [b \in BucketNames |->
                          IF b \in MatchingBuckets THEN EmptyBucketCalled ELSE eb[b]]
               /\ IF MatchingBuckets = {}
                  THEN /\ dsPc' = "deleting"
                       /\ cfCalls' = Count(cfCalls, "deleteStack")
                  ELSE /\ dsPc' = "emptying"
                       /\ UNCHANGED cfCalls
               /\ UNCHANGED <<promise, value>>
  /\ UNCHANGED <<op, sideVars, cli, pollVars, bucket, bucket0, usVars, csVars>>

\* deleteStack issuing cf.deleteStack once more when the first one failed
DeleteStackAnsweredRetry ==
  /\ dsPc = "deleting"
  /\ \E err \in TransportAnswers :
       IF err # NoError
       THEN /\ IF cfCalls["deleteStack"] < 2
               THEN /\ cfCalls' = Count(cfCalls, "deleteStack")
                    /\ UNCHANGED <<promise, value, dsPc>>
               ELSE /\ Settle("rejected", ErrorOf(err))
                    /\ dsPc' = "done"
                    /\ UNCHANGED cfCalls
            /\ UNCHANGED <<stack, pollVars>>
       ELSE /\ stack' = IF stack.status = Absent THEN stack
                        ELSE [stack EXCEPT !.status = "DELETE_IN_PROGRESS",
                                           !.prev = stack.status]
            /\ dsPc' = "polling"
            /\ PollStackCalled
            /\ cfCalls' = Count(cfCalls, "describeStacks")
            /\ UNCHANGED <<promise, value, pollValue, pollLast, pollSeen, pollTimers, waitedMs>>
  /\ UNCHANGED <<op, sideVars, cli, bucket, bucket0, eb, probe, usVars, csVars>>

\* cf.deleteStack calls back in deleteStack
DeleteStackAnswered ==
  /\ dsPc = "deleting"
  /\ \E err \in TransportAnswers :
       IF err # NoError
       THEN /\ Settle("rejected", ErrorOf(err))
            /\ dsPc' = "done"
            /\ UNCHANGED <<stack, cfCalls, pollVars>>
       ELSE /\ stack' = IF stack.status = Absent THEN stack
                        ELSE [stack EXCEPT !.status = "DELETE_IN_PROGRESS",
                                           !.prev = stack.status]
            /\ dsPc' = "polling"
            /\ PollStackCalled
            /\ cfCalls' = Count(cfCalls, "describeStacks")
            /\ UNCHANGED <<promise, value, pollValue, pollLast, pollSeen, pollTimers, waitedMs>>
  /\ UNCHANGED <<op, sideVars, cli, bucket, bucket0, eb, probe, usVars, csVars>>

-----------------------------------------------------------------------------
(* upsertStack (cloudFormation.js): arguments and state *)

\* script: a path or URL, as its pieces; the first piece of an S3 URL is its
\* first ten characters
LocalScript   == <<"template.json">>
MissingScript == <<"missing.json">>
S3Url(bkt, prefix, script) == <<"https://s3", ".amazonaws.com/", bkt, "/", prefix>> \o script

\* script.substring(0, 10) === 'https://s3'
IsS3Url(script) == Len(script) > 0 /\ script[1] = "https://s3"

\* fs.existsSync(script): the one file there is
FileExists(script) == script = LocalScript

NoRequest == [script |-> <<>>, review |-> FALSE, s3Bucket |-> FALSE, ct |-> "absent",
              hasTransform |-> FALSE, tmpl |-> "v1"]

UsIdle == [pc |-> "idle", script |-> <<>>, review |-> FALSE, ct |-> FALSE,
           field |-> "none", uploads |-> 0, reads |-> 0, prompts |-> 0,
           answer |-> "none", csName |-> "none", csType |-> "none",
           updateErr |-> NoError, created |-> {}, deleted |-> {},
           deletePoll |-> "none", failed |-> {}]

NoStack == [status |-> Absent, outputs |-> {}, tmpl |-> "none", target |-> "none",
            prev |-> "none"]

UpsertIdle ==
  /\ req = NoRequest
  /\ us = UsIdle
  /\ call = 0
  /\ stack1 = NoStack

ChangeSetNames == {"preview", "apply"}

NoChangeSet == [status |-> Absent, reason |-> NoError, type |-> "none",
                changes |-> FALSE, executed |-> FALSE, prev |-> "none"]

NoChangeSetAnswer == [err |-> NoError, status |-> "NONE", reason |-> NoError]

CsPollIdle == [pc |-> "idle", name |-> "none", promise |-> "none", value |-> Undefined,
               last |-> NoChangeSetAnswer, seen |-> 0, timers |-> 0, describes |-> 0,
               waitedMs |-> 0]

ChangeSetsIdle ==
  /\ cs = [n \in ChangeSetNames |-> NoChangeSet]
  /\ csPoll = CsPollIdle

-----------------------------------------------------------------------------
(* upsertStack, createStack, updateStack *)

\* Messages of the errors of fs and of the CloudFormation API
NoSuchFileMsg    == <<"ENOENT", ":", "no", "such", "file", "or", "directory">>
AlreadyExistsMsg == <<"Stack", "[", "app-stack", "]", "already", "exists">>
NotUpdatableMsg  == <<"Stack", "is", "in", "a", "state", "that", "can", "not", "be", "updated">>
NoUpdatesMsg     == <<"No", "updates", "are", "to", "be", "performed", ".">>
CreateTransformMsg == <<"CreateStack", "cannot", "be", "used", "with", "templates",
                        "containing", "Transforms", ".">>
UpdateTransformMsg == <<"UpdateStack", "cannot", "be", "used", "with", "templates",
                        "containing", "Transforms", ".">>

NoUpdatesPhrase == <<"No", "updates", "are", "to", "be", "performed">>

\* err.toString(): the name of the error, then its message
ErrToString(m) == <<"ValidationError", ":">> \o m

\* `${script} does not exist!`
DoesNotExistMsg(script) == script \o <<"does", "not", "exist!">>

\* The outputs the template declares
TemplateOutputs == { [key |-> <<"Api", "Url">>, value |-> "url"] }

\* The statuses in which the provider accepts an update of the stack
Updatable == {"CREATE_COMPLETE", "UPDATE_COMPLETE", "UPDATE_ROLLBACK_COMPLETE"}

\* The body of upsertStack up to its first asynchronous call (lines 27-93).
\* u is the state it starts from; nested is TRUE for the call made in the
\* then of the upload, where an exception rejects the promise of that then.
UpsertStackBegin(u, script, review, s3Bucket, ctOpt, nested) ==
  LET scanned == ctOpt = "absent"
      ct == IF scanned THEN req.hasTransform ELSE ctOpt = "true"
      v  == [u EXCEPT !.script = script, !.review = review, !.ct = ct,
                      !.reads = IF scanned THEN @ + 1 ELSE @]
  IN
  IF scanned /\ ~FileExists(script)
  THEN /\ us' = [v EXCEPT !.pc = "done"]
       /\ promise' = IF nested THEN "rejected" ELSE "threw"
       /\ value' = ErrorOf(NoSuchFileMsg)
       /\ cfCalls' = NoCalls
  ELSE IF s3Bucket
  THEN /\ us' = [v EXCEPT !.pc = "upload", !.uploads = @ + 1]
       /\ promise' = "pending"
       /\ value' = Undefined
       /\ cfCalls' = NoCalls
  ELSE IF IsS3Url(script)
  THEN /\ us' = [v EXCEPT !.pc = "probe", !.field = "TemplateURL"]
       /\ promise' = "pending"
       /\ value' = Undefined
       /\ cfCalls' = Count(NoCalls, "describeStacks")
  ELSE IF ~FileExists(script)
  THEN /\ us' = [v EXCEPT !.pc = "done"]
       /\ promise' = "rejected"
       /\ value' = ErrorOf(DoesNotExistMsg(script))
       /\ cfCalls' = NoCalls
  ELSE /\ us' = [v EXCEPT !.pc = "probe", !.field = "TemplateBody", !.reads = @ + 1]
       /\ promise' = "pending"
       /\ value' = Undefined
       /\ cfCalls' = Count(NoCalls, "describeStacks")

\* upsertStack(name, script, parameters, options) is called: the first time,
\* or again with the same arguments once the promise of the first call settled
UpsertStackCalled ==
  /\ op = "upsertStack"
  /\ \/ call = 1 /\ us.pc = "start"
     \/ call = 1 /\ promise \in {"resolved", "rejected"}
  /\ call' = IF us.pc = "start" THEN 1 ELSE 2
  /\ stack1' = stack
  /\ UpsertStackBegin([UsIdle EXCEPT !.pc = "start"], req.script, req.review,
                      req.s3Bucket, req.ct, FALSE)
  /\ pollPc' = "idle"
  /\ pollPromise' = "none"
  /\ pollValue' = Undefined
  /\ pollLast' = NoAnswer
  /\ pollSeen' = 0
  /\ pollTimers' = 0
  /\ pollDescribes' = 0
  /\ waitedMs' = 0
  /\ probe' = NoAnswer
  /\ csPoll' = CsPollIdle
  /\ UNCHANGED <<op, sideVars, cli, stack, bucket, bucket0, eb, dsPc, req, cs>>

\* s3.upload calls back in putS3Object: upsertStack is called again, with the
\* URL of the uploaded template and the options review and containsTransforms
UpsertStackUploaded ==
  /\ us.pc = "upload"
  /\ \E err \in IF FileExists(us.script) THEN {NoError, AccessDeniedErr} ELSE {NoSuchFileMsg} :
       IF err # NoError
       THEN /\ us' = [us EXCEPT !.pc = "done"]
            /\ promise' = "rejected"
            /\ value' = ErrorOf(err)
            /\ UNCHANGED cfCalls
       ELSE UpsertStackBegin(us, S3Url("templates", "prefix/", us.script),
                             (us.review = TRUE), FALSE,
                             IF us.ct THEN "true" ELSE "false", TRUE)
  /\ UNCHANGED <<op, sideVars, cli, stack, pollVars, bucket, bucket0, eb, probe, dsPc, req, call,
                 stack1, csVars>>

\* executeUpdate() issuing updateStack whatever the template contains
ExecuteUpdateDirect(u) ==
  [us |-> [u EXCEPT !.pc = "updateStack"], issued |-> "updateStack"]

\* executeUpdate() of upsertStack: the call it issues
ExecuteUpdate(u) ==
  IF u.ct
  THEN [us |-> [u EXCEPT !.pc = "createChangeSet", !.csName = "apply", !.csType = "UPDATE"],
        issued |-> "createChangeSet"]
  ELSE [us |-> [u EXCEPT !.pc = "updateStack"], issued |-> "updateStack"]

\* The callback of the first describeStacks taking every stack for an existing one
UpsertStackBranchAlwaysUpdate(u, err) == ExecuteUpdate(u)

\* The callback of the first describeStacks taking only 'does not exist' for
\* a missing stack
UpsertStackBranchNotFoundOnly(u, err) ==
  IF err # NoError /\ IndexOf(err, DoesNotExist) >= 0
  THEN IF u.ct
       THEN [us |-> [u EXCEPT !.pc = "createChangeSet", !.csName = "apply",
                              !.csType = "CREATE"],
             issued |-> "createChangeSet"]
       ELSE [us |-> [u EXCEPT !.pc = "createStack"], issued |-> "createStack"]
  ELSE IF u.review
       THEN [us |-> [u EXCEPT !.pc = "createChangeSet", !.csName = "preview",
                              !.csType = "UPDATE"],
             issued |-> "createChangeSet"]
       ELSE ExecuteUpdate(u)

\* What the callback of the first describeStacks of upsertStack goes on with
UpsertStackBranch(u, err) ==
  IF err # NoError
  THEN IF u.ct
       THEN [us |-> [u EXCEPT !.pc = "createChangeSet", !.csName = "apply",
                              !.csType = "CREATE"],
             issued |-> "createChangeSet"]
       ELSE [us |-> [u EXCEPT !.pc = "createStack"], issued |-> "createStack"]
  ELSE IF u.review
       THEN [us |-> [u EXCEPT !.pc = "createChangeSet", !.csName = "preview",
                              !.csType = "UPDATE"],
             issued |-> "createChangeSet"]
       ELSE ExecuteUpdate(u)

\* cf.describeStacks calls back in upsertStack
UpsertStackDescribed ==
  /\ us.pc = "probe"
  /\ \E a \in DescribeAnswers :
       LET next == UpsertStackBranch(us, a.err) IN
       /\ stack' = StackAfter(stack, a.now)
       /\ probe' = [err |-> a.err, status |-> a.status]
       /\ us' = next.us
       /\ cfCalls' = Count(cfCalls, next.issued)
  /\ UNCHANGED <<op, sideVars, cli, promise, value, pollVars, bucket, bucket0, eb, dsPc, req, call,
                 stack1, csVars>>

\* The answers cf.createStack can give: an error, or NoError when it accepts
CreateStackAnswers ==
  TransportErrors
  \cup (IF stack.status # Absent THEN {AlreadyExistsMsg}
        ELSE IF req.hasTransform THEN {NoError, CreateTransformMsg}
        ELSE {NoError})

\* cf.createStack calls back in createStack
CreateStackAnswered ==
  /\ us.pc = "createStack"
  /\ \E err \in CreateStackAnswers :
       IF err # NoError
       THEN /\ Settle("rejected", ErrorOf(err))
            /\ us' = [us EXCEPT !.pc = "done"]
            /\ UNCHANGED <<stack, cfCalls, pollVars>>
       ELSE /\ stack' = [stack EXCEPT !.status = "CREATE_IN_PROGRESS",
                                      !.target = req.tmpl, !.outputs = TemplateOutputs]
            /\ us' = [us EXCEPT !.pc = "pollStack"]
            /\ PollStackCalled
            /\ cfCalls' = Count(cfCalls, "describeStacks")
            /\ UNCHANGED <<promise, value, pollValue, pollLast, pollSeen, pollTimers, waitedMs>>
  /\ UNCHANGED <<op, sideVars, cli, bucket, bucket0, eb, probe, dsPc, req, call, stack1, csVars>>

\* The answers cf.updateStack can give: an error, or NoError when it accepts
UpdateStackAnswers ==
  TransportErrors
  \cup (IF stack.status \notin Updatable THEN {NotUpdatableMsg}
        ELSE IF stack.tmpl = req.tmpl THEN {NoUpdatesMsg}
        ELSE IF req.hasTransform THEN {NoError, UpdateTransformMsg}
        ELSE {NoError})

\* updateStack: the error of cf.updateStack is the one of an update without changes
IsNoUpdates(err) == IndexOf(ErrToString(err), NoUpdatesPhrase) >= 0

\* cf.updateStack calls back in updateStack
UpdateStackAnswered ==
  /\ us.pc = "updateStack"
  /\ \E err \in UpdateStackAnswers :
       IF err # NoError /\ ~IsNoUpdates(err)
       THEN /\ Settle("rejected", ErrorOf(err))
            /\ us' = [us EXCEPT !.pc = "done", !.updateErr = err]
            /\ UNCHANGED <<stack, cfCalls, pollVars>>
       ELSE /\ stack' = IF err = NoError
                        THEN [stack EXCEPT !.status = "UPDATE_IN_PROGRESS",
                                           !.target = req.tmpl, !.prev = stack.status]
                        ELSE stack
            /\ us' = [us EXCEPT !.pc = "pollStack", !.updateErr = err]
            /\ PollStackCalled
            /\ cfCalls' = Count(cfCalls, "describeStacks")
            /\ UNCHANGED <<promise, value, pollValue, pollLast, pollSeen, pollTimers, waitedMs>>
  /\ UNCHANGED <<op, sideVars, cli, bucket, bucket0, eb, probe, dsPc, req, call, stack1, csVars>>

-----------------------------------------------------------------------------
(* Change sets: createChangeSet, pollChangeSet, deleteChangeSet,             *)
(* executeChangeSet, and the review of upsertStack                          *)

ChangeSetExistsMsg   == <<"ChangeSet", "cf-utils-app-stack-preview", "already", "exists">>
ChangeSetNotFoundMsg == <<"ChangeSet", "[", "cf-utils-app-stack-preview", "]", "does",
                          "not", "exist">>

\* StatusReason of a change set that failed
NoChangesReason == <<"The", "submitted", "information", "didn't", "contain", "changes", ".",
                     "Submit", "different", "information", "to", "create", "a", "change",
                     "set", ".">>
OtherReason     == <<"Template", "format", "error", ":", "unresolved", "resource",
                     "dependencies">>

NoChangesPhrase == <<"didn't", "contain", "changes">>

ReviewerRejected == <<"Reviewer", "rejected", "stack", "update">>
ChangesetCreationFailed == <<"Changeset", "creation", "failed">>

ChangeSetData(s) == [kind |-> "changeset", msg |-> NoError, status |-> s, outputs |-> {}]

\* What the provider does to a change set on its own
ChangeSetLifecycle(c) ==
  CASE c.status = "CREATE_PENDING" -> {[c EXCEPT !.status = "CREATE_IN_PROGRESS"]}
    [] c.status = "CREATE_IN_PROGRESS" ->
         (IF c.changes
          THEN {[c EXCEPT !.status = "CREATE_COMPLETE"]}
          ELSE {[c EXCEPT !.status = "FAILED", !.reason = r] :
                  r \in {NoChangesReason, NoUpdatesMsg}})
         \cup {[c EXCEPT !.status = "FAILED", !.reason = OtherReason]}
    [] c.status = "DELETE_IN_PROGRESS" -> {NoChangeSet}
    [] OTHER -> {}

ChangeSetStep(C) == C \cup UNION { ChangeSetLifecycle(c) : c \in C }

\* The statuses of a change set in the CloudFormation API, and UPDATE_COMPLETE,
\* which pollChangeSet has a case for
ChangeSetStatuses == {"CREATE_PENDING", "CREATE_IN_PROGRESS", "CREATE_COMPLETE",
                      "DELETE_PENDING", "DELETE_IN_PROGRESS", "DELETE_COMPLETE",
                      "DELETE_FAILED", "FAILED", "UPDATE_COMPLETE"}

\* The change sets pollChangeSet invoked on its own can be shown: a scripted
\* double, any status may follow any status
ScriptedChangeSets ==
  {NoChangeSet}
  \cup { [NoChangeSet EXCEPT !.status = s, !.changes = TRUE] :
           s \in ChangeSetStatuses \ {"FAILED"} }
  \cup { [NoChangeSet EXCEPT !.status = "FAILED", !.reason = r] :
           r \in {NoChangesReason, NoUpdatesMsg, OtherReason} }

\* The answers cf.describeChangeSet can give now for the change set n.  As
\* with describeStacks, the first describe after the provider accepted the
\* deletion may still be served the description the change set had before
\* (prev).
DescribeChangeSetAnswers(n) ==
  { [err |-> m, status |-> Absent, reason |-> NoError, now |-> cs[n]] : m \in TransportErrors }
  \cup { [err |-> IF c.status = Absent THEN ChangeSetNotFoundMsg ELSE NoError,
          status |-> c.status, reason |-> c.reason, now |-> [c EXCEPT !.prev = "none"]] :
          c \in IF op = "pollChangeSet" THEN ScriptedChangeSets
                ELSE ChangeSetStep(ChangeSetStep({cs[n]})) }
  \cup { [err |-> NoError, status |-> s, reason |-> cs[n].reason,
          now |-> [cs[n] EXCEPT !.prev = "none"]] : s \in {cs[n].prev} \ {"none"} }

ChangeSetPollDelay == 5000

\* pollChangeSet testing indexOf for truth, as deleteStack does
PollChangeSetOutcomeTruthy(a) ==
  IF a.err # NoError
  THEN IF Truthy(IndexOf(a.err, DoesNotExist)) THEN "resolve_empty" ELSE "reject_err"
  ELSE CASE a.status \in {"CREATE_COMPLETE", "UPDATE_COMPLETE", "DELETE_COMPLETE"} -> "resolve_cs"
         [] a.status = "FAILED" ->
              IF \/ IndexOf(a.reason, NoUpdatesPhrase) >= 0
                 \/ IndexOf(a.reason, NoChangesPhrase) >= 0
              THEN "resolve_empty" ELSE "reject_failed"
         [] OTHER -> "wait"

\* pollChangeSet knowing only the reason 'No updates are to be performed'
PollChangeSetOutcomeOnlyNoUpdates(a) ==
  IF a.err # NoError
  THEN IF IndexOf(a.err, DoesNotExist) >= 0 THEN "resolve_empty" ELSE "reject_err"
  ELSE CASE a.status \in {"CREATE_COMPLETE", "UPDATE_COMPLETE", "DELETE_COMPLETE"} -> "resolve_cs"
         [] a.status = "FAILED" ->
              IF IndexOf(a.reason, NoUpdatesPhrase) >= 0
              THEN "resolve_empty" ELSE "reject_failed"
         [] OTHER -> "wait"

\* pollChangeSet taking every failed change set for one without changes
PollChangeSetOutcomeFailedIsEmpty(a) ==
  IF a.err # NoError
  THEN IF IndexOf(a.err, DoesNotExist) >= 0 THEN "resolve_empty" ELSE "reject_err"
  ELSE CASE a.status \in {"CREATE_COMPLETE", "UPDATE_COMPLETE", "DELETE_COMPLETE"} -> "resolve_cs"
         [] a.status = "FAILED" -> "resolve_empty"
         [] OTHER -> "wait"

\* The callback of describeChangeSet in pollChangeSet: what it does with an answer
PollChangeSetOutcome(a) ==
  IF a.err # NoError
  THEN IF IndexOf(a.err, DoesNotExist) >= 0 THEN "resolve_empty" ELSE "reject_err"
  ELSE CASE a.status \in {"CREATE_COMPLETE", "UPDATE_COMPLETE", "DELETE_COMPLETE"} -> "resolve_cs"
         [] a.status = "FAILED" ->
              IF \/ IndexOf(a.reason, NoUpdatesPhrase) >= 0
                 \/ IndexOf(a.reason, NoChangesPhrase) >= 0
              THEN "resolve_empty" ELSE "reject_failed"
         [] OTHER -> "wait"

\* pollChangeSet(params) is called for the change set n
PollChangeSetCalled(n) ==
  [csPoll EXCEPT !.pc = "describe", !.name = n, !.promise = "pending",
                 !.value = Undefined, !.seen = 0, !.describes = @ + 1]

\* The answers cf.createChangeSet can give: an error, or NoError when it accepts
CreateChangeSetAnswers ==
  TransportErrors
  \cup (IF us.csName = "preview" /\ cs["preview"].status # Absent THEN {ChangeSetExistsMsg}
        ELSE IF us.csType = "CREATE" /\ stack.status \notin {Absent, "REVIEW_IN_PROGRESS"}
        THEN {AlreadyExistsMsg}
        ELSE IF us.csType = "UPDATE" /\ stack.status \notin Updatable THEN {NotUpdatableMsg}
        ELSE {NoError})

\* cf.createChangeSet calls back in createChangeSet.  The review of
\* upsertStack has no catch on createChangeSet(...).then(...)
CreateChangeSetAnswered ==
  /\ us.pc = "createChangeSet"
  /\ \E err \in CreateChangeSetAnswers :
       IF err # NoError
       THEN /\ IF us.csName = "preview"
               THEN /\ us' = [us EXCEPT !.pc = "hung", !.failed = @ \cup {"createChangeSet"}]
                    /\ UNCHANGED <<promise, value>>
               ELSE /\ us' = [us EXCEPT !.pc = "done", !.failed = @ \cup {"createChangeSet"}]
                    /\ Settle("rejected", ErrorOf(err))
            /\ UNCHANGED <<stack, cfCalls, cs, csPoll>>
       ELSE /\ cs' = [cs EXCEPT ![us.csName] =
                        [status |-> "CREATE_PENDING", reason |-> NoError, type |-> us.csType,
                         changes |-> (us.csType = "CREATE" \/ stack.tmpl # req.tmpl),
                         executed |-> FALSE, prev |-> "none"]]
            /\ stack' = IF stack.status = Absent
                        THEN [stack EXCEPT !.status = "REVIEW_IN_PROGRESS"] ELSE stack
            /\ us' = [us EXCEPT !.pc = "pollChangeSet", !.created = @ \cup {us.csName}]
            /\ csPoll' = PollChangeSetCalled(us.csName)
            /\ cfCalls' = Count(cfCalls, "describeChangeSet")
            /\ UNCHANGED <<promise, value>>
  /\ UNCHANGED <<op, sideVars, cli, pollVars, bucket, bucket0, eb, probe, dsPc, req, call, stack1>>

\* The then of createChangeSet in the review prompting whatever pollChangeSet gave
AfterPollChangeSetAlwaysPrompt(u, how, v) ==
  [us |-> [u EXCEPT !.pc = "prompt", !.prompts = @ + 1], issued |-> "none",
   settle |-> "none", value |-> Undefined]

\* What runs when the promise of pollChangeSet settles (how, v): the then of
\* createChangeSet in the review of upsertStack or in applyChangeSet, or the
\* then of deleteChangeSet in the review.  settle is what it does to the
\* promise of upsertStack, issued the call it makes.
AfterPollChangeSet(u, how, v) ==
  LET Hang      == [us |-> [u EXCEPT !.pc = "hung"], issued |-> "none",
                    settle |-> "none", value |-> Undefined]
      End(h, w) == [us |-> [u EXCEPT !.pc = "done"], issued |-> "none",
                    settle |-> h, value |-> w]
      Go(nu, c) == [us |-> nu, issued |-> c, settle |-> "none", value |-> Undefined]
  IN
  IF u.pc = "pollDeleted"
  THEN LET d == [u EXCEPT !.deletePoll = how] IN
       IF how = "rejected"
       THEN [us |-> [d EXCEPT !.pc = "hung"], issued |-> "none",
             settle |-> "none", value |-> Undefined]
       ELSE IF u.answer = "yes"
            THEN Go(ExecuteUpdate(d).us, ExecuteUpdate(d).issued)
            ELSE [us |-> [d EXCEPT !.pc = "done"], issued |-> "none",
                  settle |-> "rejected", value |-> StringOf(ReviewerRejected)]
  ELSE IF u.csName = "preview"
  THEN IF how = "rejected" THEN Hang
       ELSE IF v.kind = "changeset"
            THEN Go([u EXCEPT !.pc = "prompt", !.prompts = @ + 1], "none")
            ELSE Go([u EXCEPT !.pc = "pollStack"], "pollStack")
  ELSE IF how = "rejected" THEN End("rejected", v)
       ELSE IF v.kind = "changeset"
            THEN Go([u EXCEPT !.pc = "executeChangeSet"], "executeChangeSet")
            ELSE End("resolved", Undefined)

\* cf.describeChangeSet calls back in pollChangeSet
PollChangeSetDescribed ==
  /\ csPoll.pc = "describe"
  /\ \E a \in DescribeChangeSetAnswers(csPoll.name) :
       LET o == PollChangeSetOutcome(a)
           v == CASE o = "reject_err"    -> ErrorOf(a.err)
                  [] o = "resolve_cs"    -> ChangeSetData(a.status)
                  [] o = "reject_failed" -> ErrorOf(ChangesetCreationFailed)
                  [] OTHER               -> Undefined
           how == IF o \in {"resolve_empty", "resolve_cs"} THEN "resolved" ELSE "rejected"
           next == IF op = "pollChangeSet"
                   THEN [us |-> us, issued |-> "none", settle |-> how, value |-> v]
                   ELSE AfterPollChangeSet(us, how, v)
           last == [err |-> a.err, status |-> a.status, reason |-> a.reason]
       IN
       /\ o = "wait" => csPoll.seen < MaxWait
       /\ cs' = [cs EXCEPT ![csPoll.name] = a.now]
       /\ IF o = "wait"
          THEN /\ csPoll' = [csPoll EXCEPT !.pc = "timer", !.seen = @ + 1,
                                           !.timers = @ + 1, !.last = last]
               /\ UNCHANGED <<promise, value, us, cfCalls, pollPc, pollPromise, pollDescribes>>
          ELSE /\ csPoll' = [csPoll EXCEPT !.pc = "done", !.promise = how, !.value = v,
                                           !.last = last]
               /\ us' = next.us
               /\ IF next.settle = "none"
                  THEN UNCHANGED <<promise, value>>
                  ELSE Settle(next.settle, next.value)
               /\ IF next.issued = "pollStack"
                  THEN PollStackCalled /\ cfCalls' = Count(cfCalls, "describeStacks")
                  ELSE /\ cfCalls' = IF next.issued = "none" THEN cfCalls
                                     ELSE Count(cfCalls, next.issued)
                       /\ UNCHANGED <<pollPc, pollPromise, pollDescribes>>
  /\ UNCHANGED <<op, sideVars, cli, stack, pollValue, pollLast, pollSeen, pollTimers, waitedMs, bucket,
                 bucket0, eb, probe, dsPc, req, call, stack1>>

\* The timer set by pollChangeSet fires: pollChangeSet(params) is called again
PollChangeSetTimeout ==
  /\ csPoll.pc = "timer"
  /\ csPoll' = [csPoll EXCEPT !.pc = "describe", !.describes = @ + 1,
                               !.waitedMs = @ + ChangeSetPollDelay]
  /\ cfCalls' = Count(cfCalls, "describeChangeSet")
  /\ UNCHANGED <<op, sideVars, cli, promise, value, stack, pollVars, bucket, bucket0, eb, probe, dsPc,
                 usVars, cs>>

\* The review going on to the update, or rejecting, without deleting the
\* preview change set
PromptAnsweredNoCleanup ==
  /\ us.pc = "prompt"
  /\ \E performUpdate \in BOOLEAN :
       IF performUpdate
       THEN /\ us' = [ExecuteUpdate(us).us EXCEPT !.answer = "yes"]
            /\ cfCalls' = Count(cfCalls, ExecuteUpdate(us).issued)
            /\ UNCHANGED <<promise, value>>
       ELSE /\ us' = [us EXCEPT !.pc = "done", !.answer = "no"]
            /\ Settle("rejected", StringOf(ReviewerRejected))
            /\ UNCHANGED cfCalls
  /\ UNCHANGED <<op, sideVars, cli, stack, pollVars, bucket, bucket0, eb, probe, dsPc,
                 req, call, stack1, csVars>>

\* The operator answers the prompt of the review: deleteChangeSet is called
\* for the preview change set, whichever the answer
PromptAnswered ==
  /\ us.pc = "prompt"
  /\ \E performUpdate \in BOOLEAN :
       us' = [us EXCEPT !.pc = "deleteChangeSet", !.deleted = @ \cup {"preview"},
                        !.answer = IF performUpdate THEN "yes" ELSE "no"]
  /\ cfCalls' = Count(cfCalls, "deleteChangeSet")
  /\ UNCHANGED <<op, sideVars, cli, promise, value, stack, pollVars, bucket, bucket0, eb, probe, dsPc,
                 req, call, stack1, csVars>>

\* cf.deleteChangeSet calls back in deleteChangeSet.  The review has no catch
\* on deleteChangeSet(...).then(...)
DeleteChangeSetAnswered ==
  /\ us.pc = "deleteChangeSet"
  /\ \E err \in TransportErrors \cup {NoError} :
       IF err # NoError
       THEN /\ us' = [us EXCEPT !.pc = "hung", !.failed = @ \cup {"deleteChangeSet"}]
            /\ UNCHANGED <<cfCalls, cs, csPoll>>
       ELSE /\ cs' = [cs EXCEPT !["preview"] =
                        IF @.status = Absent THEN @
                        ELSE [@ EXCEPT !.status = "DELETE_IN_PROGRESS",
                                       !.prev = cs["preview"].status]]
            /\ us' = [us EXCEPT !.pc = "pollDeleted", !.deletePoll = "pending"]
            /\ csPoll' = PollChangeSetCalled("preview")
            /\ cfCalls' = Count(cfCalls, "describeChangeSet")
  /\ UNCHANGED <<op, sideVars, cli, promise, value, stack, pollVars, bucket, bucket0, eb, probe, dsPc,
                 req, call, stack1>>

\* cf.executeChangeSet calls back in executeChangeSet
ExecuteChangeSetAnswered ==
  /\ us.pc = "executeChangeSet"
  /\ \E err \in TransportErrors \cup {NoError} :
       IF err # NoError
       THEN /\ Settle("rejected", ErrorOf(err))
            /\ us' = [us EXCEPT !.pc = "done"]
            /\ UNCHANGED <<stack, cfCalls, pollVars, cs>>
       ELSE /\ cs' = [cs EXCEPT !["apply"].executed = TRUE]
            /\ stack' = [stack EXCEPT !.status = IF us.csType = "CREATE"
                                                 THEN "CREATE_IN_PROGRESS"
                                                 ELSE "UPDATE_IN_PROGRESS",
                                      !.prev = IF us.csType = "CREATE" THEN "none"
                                               ELSE stack.status,
                                      !.target = req.tmpl, !.outputs = TemplateOutputs]
            /\ us' = [us EXCEPT !.pc = "pollStack"]
            /\ PollStackCalled
            /\ cfCalls' = Count(cfCalls, "describeStacks")
            /\ UNCHANGED <<promise, value, pollValue, pollLast, pollSeen, pollTimers, waitedMs>>
  /\ UNCHANGED <<op, sideVars, cli, bucket, bucket0, eb, probe, dsPc, req, call, stack1, csPoll>>

-----------------------------------------------------------------------------
(* deployStack: the deployment through the aws command line *)

NoChangesToDeploy == <<"No", "changes", "to", "deploy">>
StackDeployFailed == <<"Stack", "deploy", "failed">>

\* What one 'data' event of the standard error of the command can carry
StderrChunks == { <<"No", "changes">>, <<"to", "deploy">>,
                  <<"No", "changes", "to", "deploy">>,
                  <<"ValidationError">> }

\* The codes the command exits with
ExitCodes == {0, 1, 255}

CliIdle == [pc |-> "idle", err |-> <<>>, chunks |-> 0, code |-> 0, last |-> NoAnswer]

\* What the command leaves of the stack when it exits with a code: with 0 the
\* stack is deployed from the template, or was up to date; with another code
\* it is as it was or rolled back
DeployOutcomes(code) ==
  IF code = 0
  THEN { [stack EXCEPT !.status = IF stack.status = Absent THEN "CREATE_COMPLETE"
                                   ELSE "UPDATE_COMPLETE",
                        !.outputs = TemplateOutputs,
                        !.tmpl = stack.target] }
       \cup (IF stack.status = Absent THEN {} ELSE {stack})
  ELSE { stack,
         [stack EXCEPT !.status = IF stack.status = Absent THEN "ROLLBACK_COMPLETE"
                                   ELSE "UPDATE_ROLLBACK_COMPLETE"] }

\* the handler of 'close' testing indexOf for truth, as deleteStack does
DeployCloseOutcomeTruthy(code, err) ==
  IF code # 0
  THEN IF Truthy(IndexOf(err, NoChangesToDeploy)) THEN "describe" ELSE "reject"
  ELSE "describe"

\* The handler of 'close': what it does with the exit code and the text the
\* standard error accumulated
DeployCloseOutcome(code, err) ==
  IF code # 0
  THEN IF IndexOf(err, NoChangesToDeploy) >= 0 THEN "describe" ELSE "reject"
  ELSE "describe"

\* cli.stderr.on('data'): the text is appended to err
DeployStderrData ==
  /\ op = "deployStack"
  /\ cli.pc = "running"
  /\ cli.chunks < MaxChunks
  /\ \E data \in StderrChunks :
       cli' = [cli EXCEPT !.err = @ \o data, !.chunks = @ + 1]
  /\ UNCHANGED <<op, sideVars, promise, value, stack, cfCalls, pollVars, bucket, bucket0, eb, probe,
                 dsPc, usVars, csVars>>

\* cli.on('close'): the command has exited and its streams are closed
DeployClosed ==
  /\ op = "deployStack"
  /\ cli.pc = "running"
  /\ \E code \in ExitCodes :
       /\ stack' \in DeployOutcomes(code)
       /\ IF DeployCloseOutcome(code, cli.err) = "reject"
          THEN /\ Settle("rejected", StringOf(StackDeployFailed))
               /\ cli' = [cli EXCEPT !.pc = "done", !.code = code]
               /\ UNCHANGED cfCalls
          ELSE /\ cli' = [cli EXCEPT !.pc = "describe", !.code = code]
               /\ cfCalls' = Count(cfCalls, "describeStacks")
               /\ UNCHANGED <<promise, value>>
  /\ UNCHANGED <<op, sideVars, pollVars, bucket, bucket0, eb, probe, dsPc, usVars, csVars>>

\* The callback of describeStacks in describeStack, whose promise the promise
\* of deployStack was resolved with
DescribeStackAnswered ==
  /\ op = "deployStack"
  /\ cli.pc = "describe"
  /\ \E a \in DescribeAnswers :
       /\ cli' = [cli EXCEPT !.pc = "done", !.last = [err |-> a.err, status |-> a.status]]
       /\ IF a.err # NoError
          THEN Settle("rejected", ErrorOf(a.err))
          ELSE Settle("resolved", StackData(a.status, stack.outputs))
  /\ UNCHANGED <<op, sideVars, stack, cfCalls, pollVars, bucket, bucket0, eb, probe, dsPc, usVars,
                 csVars>>

-----------------------------------------------------------------------------
(* cloudWatch.js: deleteLogGroups *)

LogGroups == 1..MaxLogGroups

CwIdle == [pc |-> "idle", groups0 |-> {}, groups |-> {}, token |-> 0, next |-> 0, pending |-> {},
           lists |-> 0, empties |-> 0, calls |-> [g \in LogGroups |-> 0],
           failed |-> NoError]

LambdaIdle == [pc |-> "idle", fns |-> <<>>, marker |-> 0, next |-> 0, pending |-> {},
               round |-> 0, lists |-> 0, calls |-> [f \in 1..MaxFunctions |-> 0],
               failed |-> NoError]

\* a promise that was not made
NoPromise == [state |-> "none", value |-> Undefined]

LegacyIdle == [pc |-> "idle", review |-> FALSE, accept |-> FALSE, probeErr |-> NoError,
               pollFor |-> "none", pollLast |-> NoAnswer, poll |-> NoPromise, seen |-> 0,
               csFor |-> "none", csLast |-> NoChangeSetAnswer, csPoll |-> NoPromise,
               csSeen |-> 0, noChanges |-> FALSE,
               caught |-> Undefined, deploys |-> 0, err |-> <<>>, chunks |-> 0,
               deploy |-> NoPromise]

\* a target policy nothing was asked about
NoPolicy == [pc |-> "none", old0 |-> {}, old |-> {}, pending |-> {}, created |-> FALSE,
             stage |-> "none", failed |-> NoError]

IotIdle == [keys |-> {}, pol |-> [p \in 1..MaxPolicies |-> NoPolicy]]

\* nothing outside cloudFormation.js and s3.js is running
SideIdle ==
  /\ cw = CwIdle
  /\ lam = LambdaIdle
  /\ iot = IotIdle
  /\ legacy = LegacyIdle

\* One describeLogGroups answer for nextToken token: the first n log groups
\* from the token on, and a nextToken (0: none) when more remain
LogPage(groups, token, n) ==
  LET from == { g \in groups : g >= token }
      page == { g \in from : Cardinality({ h \in from : h < g }) < n }
      rest == from \ page
  IN  [logGroups |-> page,
       nextToken |-> IF rest = {} THEN 0 ELSE CHOOSE g \in rest : \A h \in rest : g <= h]

\* listAndDelete following the nextToken of the first answer only
DeleteLogGroupsThenOnce(c, token) ==
  IF Truthy(token) /\ c.lists < 2
  THEN [c EXCEPT !.pc = "list", !.token = token, !.lists = @ + 1]
  ELSE [c EXCEPT !.pc = "done"]

\* The then of listAndDelete (lines 101-105): with a nextToken listAndDelete
\* is called again, without one the promise of deleteLogGroups resolves
DeleteLogGroupsThen(c, token) ==
  IF Truthy(token)
  THEN [c EXCEPT !.pc = "list", !.token = token, !.lists = @ + 1]
  ELSE [c EXCEPT !.pc = "done"]

\* cw.describeLogGroups calls back in listLogGroups called by listAndDelete
ListLogGroupsAnswered ==
  /\ op = "deleteLogGroups"
  /\ cw.pc = "list"
  /\ \E err \in {NoError, ThrottlingMsg}, n \in 0..LogPageSize :
       LET data == LogPage(cw.groups, cw.token, n) IN
       /\ n = 0 => (err = NoError /\ (data.nextToken # 0 => cw.empties < MaxEmptyPages))
       /\ IF err # NoError
          THEN /\ cw' = [cw EXCEPT !.pc = "done", !.failed = err]
               /\ Settle("rejected", ErrorOf(err))
          ELSE IF data.logGroups # {}
          THEN /\ cw' = [cw EXCEPT !.pc = "deleting", !.pending = data.logGroups,
                                   !.next = data.nextToken,
                                   !.calls = [g \in LogGroups |->
                                                IF g \in data.logGroups THEN @[g] + 1
                                                ELSE @[g]]]
               /\ UNCHANGED <<promise, value>>
          ELSE LET c == DeleteLogGroupsThen(
                          [cw EXCEPT !.empties = IF data.nextToken # 0 THEN @ + 1 ELSE @,
                                     !.next = data.nextToken],
                          data.nextToken)
               IN  /\ cw' = c
                   /\ IF c.pc = "done"
                      THEN Settle("resolved", Undefined)
                      ELSE UNCHANGED <<promise, value>>
  /\ UNCHANGED <<op, cfVars, lam, iot, legacy>>

\* cw.deleteLogGroup calls back for the log group g; Promise.all resolves
\* when the last deletion of the page resolved and rejects with the first
\* that failed, the other deletions going on
DeleteLogGroupAnswered(g) ==
  /\ op = "deleteLogGroups"
  /\ g \in cw.pending
  /\ \E err \in {NoError, ThrottlingMsg} :
       LET left == [cw EXCEPT !.pending = @ \ {g},
                              !.groups = IF err = NoError THEN @ \ {g} ELSE @]
       IN
       IF err # NoError
       THEN /\ cw' = [left EXCEPT !.pc = "done",
                                  !.failed = IF @ = NoError THEN err ELSE @]
            /\ Settle("rejected", ErrorOf(err))
       ELSE IF left.pending = {} /\ cw.pc = "deleting"
       THEN LET c == DeleteLogGroupsThen(left, cw.next) IN
            /\ cw' = c
            /\ IF c.pc = "done"
               THEN Settle("resolved", Undefined)
               ELSE UNCHANGED <<promise, value>>
       ELSE /\ cw' = left
            /\ UNCHANGED <<promise, value>>
  /\ UNCHANGED <<op, cfVars, lam, iot, legacy>>

-----------------------------------------------------------------------------
(* lambda.js: updateFunctionsCode *)

\* One lambda.listFunctions answer for Marker marker: the first
\* FunctionPageSize functions from the marker on, whatever their names, and a
\* NextMarker (0: none) when more remain
FunctionPage(fns, marker) ==
  LET from == { f \in DOMAIN fns : f >= marker }
      page == { f \in from : Cardinality({ h \in from : h < f }) < FunctionPageSize }
      rest == from \ page
  IN  [Functions |-> page,
       NextMarker |-> IF rest = {} THEN 0 ELSE CHOOSE f \in rest : \A h \in rest : f <= h]

\* listFunctions keeps the functions whose name includes the filter
FilterFunctions(fns, page) == { f \in page : fns[f] }

\* updateFunctionsCode, after the promise of the first listAndUpdate()
\* resolved with token, or the promise of the second resolved (lines 79-85)
UpdateFunctionsCodeThen(l, token) ==
  IF l.round = 1 /\ Truthy(token)
  THEN [l EXCEPT !.round = 2, !.pc = "list", !.marker = token, !.lists = @ + 1]
  ELSE [l EXCEPT !.pc = "done"]

\* lambda.listFunctions calls back in listFunctions called by listAndUpdate
ListFunctionsAnswered ==
  /\ op = "updateFunctionsCode"
  /\ lam.pc = "list"
  /\ \E err \in {NoError, ThrottlingMsg} :
       LET data  == FunctionPage(lam.fns, lam.marker)
           found == FilterFunctions(lam.fns, data.Functions)
       IN
       IF err # NoError
       THEN /\ lam' = [lam EXCEPT !.pc = "done", !.failed = err]
            /\ Settle("rejected", ErrorOf(err))
       ELSE IF found # {}
       THEN /\ lam' = [lam EXCEPT !.pc = "updating", !.pending = found,
                                  !.next = data.NextMarker,
                                  !.calls = [f \in 1..MaxFunctions |->
                                               IF f \in found THEN @[f] + 1 ELSE @[f]]]
            /\ UNCHANGED <<promise, value>>
       ELSE LET l == UpdateFunctionsCodeThen([lam EXCEPT !.next = data.NextMarker], 0) IN
            /\ lam' = l
            /\ IF l.pc = "done"
               THEN Settle("resolved", Undefined)
               ELSE UNCHANGED <<promise, value>>
  /\ UNCHANGED <<op, cfVars, cw, iot, legacy>>

\* lambda.updateFunctionCode calls back for the function f; Promise.all
\* resolves when the last update of the page resolved and rejects with the
\* first that failed, the other updates going on
UpdateFunctionCodeAnswered(f) ==
  /\ op = "updateFunctionsCode"
  /\ f \in lam.pending
  /\ \E err \in {NoError, ThrottlingMsg} :
       LET left == [lam EXCEPT !.pending = @ \ {f}] IN
       IF err # NoError
       THEN /\ lam' = [left EXCEPT !.pc = "done",
                                   !.failed = IF @ = NoError THEN err ELSE @]
            /\ Settle("rejected", ErrorOf(err))
       ELSE IF left.pending = {} /\ lam.pc = "updating"
       THEN LET l == UpdateFunctionsCodeThen(left, lam.next) IN
            /\ lam' = l
            /\ IF l.pc = "done"
               THEN Settle("resolved", Undefined)
               ELSE UNCHANGED <<promise, value>>
       ELSE /\ lam' = left
            /\ UNCHANGED <<promise, value>>
  /\ UNCHANGED <<op, cfVars, cw, iot, legacy>>

-----------------------------------------------------------------------------
(* iot.js: updateIoTPolicies *)

\* policies.policyVersions of a policy with the non-default versions old: the
\* default version and those
PolicyVersionsLength(old) == 1 + Cardinality(old)

\* iot.getPolicy answers for the output key p: the then callback calls
\* _removeOldPolicyVersions, which issues listPolicyVersions, and returns
\* nothing, so the element of Promise.all resolves here; Promise.all
\* resolves when the getPolicy of every key resolved and rejects with the
\* first that failed
GetPolicyAnswered(p) ==
  /\ op = "updateIoTPolicies"
  /\ p \in iot.keys
  /\ iot.pol[p].pc = "get"
  /\ \E err \in {NoError, ThrottlingMsg} :
       IF err # NoError
       THEN /\ iot' = [iot EXCEPT !.pol[p].pc = "failed", !.pol[p].stage = "get",
                                  !.pol[p].failed = err]
            /\ Settle("rejected", ErrorOf(err))
       ELSE /\ iot' = [iot EXCEPT !.pol[p].pc = "list"]
            /\ IF \A q \in iot.keys \ {p} : iot.pol[q].pc # "get"
               THEN Settle("resolved", Undefined)
               ELSE UNCHANGED <<promise, value>>
  /\ UNCHANGED <<op, cfVars, cw, lam, legacy>>

\* iot.listPolicyVersions answers in _removeOldPolicyVersions: with more than
\* one version a deletePolicyVersion is issued for each non-default one, else
\* the promise resolves and createPolicyVersion is issued; an error rejects a
\* promise nobody handles
ListPolicyVersionsAnswered(p) ==
  /\ op = "updateIoTPolicies"
  /\ p \in iot.keys
  /\ iot.pol[p].pc = "list"
  /\ \E err \in {NoError, ThrottlingMsg} :
       IF err # NoError
       THEN iot' = [iot EXCEPT !.pol[p].pc = "failed", !.pol[p].stage = "remove",
                               !.pol[p].failed = err]
       ELSE IF PolicyVersionsLength(iot.pol[p].old) > 1
       THEN iot' = [iot EXCEPT !.pol[p].pc = "delete", !.pol[p].pending = iot.pol[p].old]
       ELSE iot' = [iot EXCEPT !.pol[p].pc = "create"]
  /\ UNCHANGED <<op, promise, value, cfVars, cw, lam, legacy>>

\* iot.deletePolicyVersion answers for version v: Promise.all of the
\* deletions resolves with the last one, and createPolicyVersion is issued;
\* the first failure rejects it, the other deletions going on
DeletePolicyVersionAnswered(p, v) ==
  /\ op = "updateIoTPolicies"
  /\ p \in iot.keys
  /\ v \in iot.pol[p].pending
  /\ \E err \in {NoError, ThrottlingMsg} :
       LET pol == iot.pol[p] IN
       IF err # NoError
       THEN iot' = [iot EXCEPT !.pol[p] =
                      IF pol.pc = "delete"
                      THEN [pol EXCEPT !.pending = @ \ {v}, !.pc = "failed",
                                       !.stage = "remove", !.failed = err]
                      ELSE [pol EXCEPT !.pending = @ \ {v}]]
       ELSE iot' = [iot EXCEPT !.pol[p] =
                      [pol EXCEPT !.pending = @ \ {v}, !.old = @ \ {v},
                                  !.pc = IF pol.pc = "delete" /\ pol.pending = {v}
                                         THEN "create" ELSE @]]
  /\ UNCHANGED <<op, promise, value, cfVars, cw, lam, legacy>>

\* iot.createPolicyVersion answers; its promise is not returned to anyone
CreatePolicyVersionAnswered(p) ==
  /\ op = "updateIoTPolicies"
  /\ p \in iot.keys
  /\ iot.pol[p].pc = "create"
  /\ \E err \in {NoError, ThrottlingMsg} :
       IF err # NoError
       THEN iot' = [iot EXCEPT !.pol[p].pc = "failed", !.pol[p].stage = "create",
                               !.pol[p].failed = err]
       ELSE iot' = [iot EXCEPT !.pol[p].pc = "done", !.pol[p].created = TRUE]
  /\ UNCHANGED <<op, promise, value, cfVars, cw, lam, legacy>>

-----------------------------------------------------------------------------
(* src/src/cloudFormation.js: upsertStack with the fallback to the aws      *)
(* command, pollStack, pollChangeSet.  The provider is a scripted double:   *)
(* every call is answered with any of the answers the API has for it.       *)

CreateTransformPhrase == <<"CreateStack", "cannot", "be", "used", "with", "templates",
                           "containing", "Transforms">>
UpdateTransformPhrase == <<"UpdateStack", "cannot", "be", "used", "with", "templates",
                           "containing", "Transforms">>

\* `${filePath} does not exist!` with filePath not declared
FilePathNotDefined == <<"ReferenceError", ":", "filePath", "is", "not", "defined">>

\* an operator result: the invocation afterwards and what the step does to
\* the promise of the invocation (settle "none": nothing)
LegacyStep(l, how, v) == [l |-> l, settle |-> how, value |-> v]

LegacyApply(r) ==
  /\ legacy' = r.l
  /\ IF r.settle = "none"
     THEN UNCHANGED <<promise, value>>
     ELSE Settle(r.settle, r.value)

\* the catch of upsertStack falling back to the command on every error
LegacyFallsBackTruthy(err, phrase) == Truthy(IndexOf(ErrToString(err), phrase))

\* err.toString().indexOf('... cannot be used with templates containing
\* Transforms') >= 0 in the catch after createStack and after updateStack
LegacyFallsBack(err, phrase) == IndexOf(ErrToString(err), phrase) >= 0

\* The catch after createStack(params) (kind create) or, in updateOrDeploy,
\* after updateStack(params) (kind update), entered with the value v of the
\* rejection: deployStack is called and the promise resolved with its
\* promise, or the promise is rejected with v
LegacyCatch(l, kind, v) ==
  IF LegacyFallsBack(v.msg, IF kind = "create" THEN CreateTransformPhrase
                            ELSE UpdateTransformPhrase)
  THEN LegacyStep([l EXCEPT !.pc = "cli", !.caught = v, !.deploys = @ + 1,
                            !.deploy = [state |-> "pending", value |-> Undefined]],
                  "none", Undefined)
  ELSE LegacyStep([l EXCEPT !.pc = "done", !.caught = v], "rejected", v)

\* pollStack(params) is called
LegacyPollStackCalled(l, for) ==
  [l EXCEPT !.pc = "poll", !.pollFor = for,
            !.poll = [state |-> "pending", value |-> Undefined]]

\* pollChangeSet(params) is called
LegacyPollChangeSetCalled(l, for) ==
  [l EXCEPT !.pc = "pollCs", !.csFor = for,
            !.csPoll = [state |-> "pending", value |-> Undefined]]

\* The callback of describeStacks in pollStack: what it does with an answer;
\* indexOf is tested for truth
LegacyPollStackOutcome(a) ==
  IF a.err # NoError
  THEN IF Truthy(IndexOf(a.err, DoesNotExist)) THEN "resolve_empty" ELSE "reject_err"
  ELSE CASE a.status \in {"CREATE_COMPLETE", "UPDATE_COMPLETE"} -> "resolve_data"
         [] a.status \in {"ROLLBACK_COMPLETE", "CREATE_FAILED", "UPDATE_FAILED",
                          "DELETE_FAILED", "UPDATE_ROLLBACK_COMPLETE"} -> "reject_failed"
         [] OTHER -> "wait"

\* The callback of describeChangeSet in pollChangeSet: what it does with an
\* answer; both indexOf are tested for truth
LegacyPollChangeSetOutcome(a) ==
  IF a.err # NoError
  THEN IF Truthy(IndexOf(a.err, DoesNotExist)) THEN "resolve_empty" ELSE "reject_err"
  ELSE CASE a.status \in {"CREATE_COMPLETE", "UPDATE_COMPLETE", "DELETE_COMPLETE"} -> "resolve_cs"
         [] a.status = "FAILED" ->
              IF Truthy(IndexOf(a.reason, NoChangesPhrase))
              THEN "resolve_empty" ELSE "reject_failed"
         [] OTHER -> "wait"

\* The answers of cf.describeStacks
LegacyDescribeAnswers ==
  { [err |-> m, status |-> Absent] : m \in TransportErrors \cup {StackNotFoundMsg} }
  \cup { [err |-> NoError, status |-> s] : s \in StackStatuses }

\* The answers of cf.describeChangeSet
LegacyDescribeChangeSetAnswers ==
  { [err |-> m, status |-> Absent, reason |-> NoError] :
      m \in TransportErrors \cup {ChangeSetNotFoundMsg} }
  \cup { [err |-> NoError, status |-> c.status, reason |-> c.reason] :
           c \in ScriptedChangeSets \ {NoChangeSet} }

\* The promise of pollStack settled: what the caller that resolved its
\* promise with it, or waits on it, does
LegacyAfterPollStack(l, how, v) ==
  CASE l.pollFor \in {"create", "update"} /\ how = "rejected" -> LegacyCatch(l, l.pollFor, v)
    [] OTHER -> LegacyStep([l EXCEPT !.pc = "done"], how, v)

\* The promise of pollChangeSet settled.  After createChangeSet, upsertStack
\* prompts on a change set and polls the stack on undefined, and has no
\* catch; after deleteChangeSet it updates or rejects as the reviewer said,
\* and has no catch
LegacyAfterPollChangeSet(l, how, v) ==
  CASE l.csFor = "self" -> LegacyStep([l EXCEPT !.pc = "done"], how, v)
    [] how = "rejected" -> LegacyStep([l EXCEPT !.pc = "stuck"], "none", Undefined)
    [] l.csFor = "create" /\ v.kind = "changeset" ->
         LegacyStep([l EXCEPT !.pc = "prompt"], "none", Undefined)
    [] l.csFor = "create" ->
         LegacyStep(LegacyPollStackCalled([l EXCEPT !.noChanges = TRUE], "nochanges"),
                    "none", Undefined)
    [] l.accept -> LegacyStep([l EXCEPT !.pc = "update"], "none", Undefined)
    [] OTHER -> LegacyStep([l EXCEPT !.pc = "done"], "rejected", StringOf(ReviewerRejected))

\* cf.describeStacks calls back in upsertStack: on any error createStack is
\* called, else createChangeSet (review) or updateOrDeploy
LegacyUpsertStackDescribed ==
  /\ op = "legacy.upsertStack"
  /\ legacy.pc = "probe"
  /\ \E err \in TransportAnswers \cup {StackNotFoundMsg} :
       legacy' = [legacy EXCEPT !.probeErr = err,
                                !.pc = IF err # NoError THEN "create"
                                       ELSE IF legacy.review THEN "createCs" ELSE "update"]
  /\ UNCHANGED <<op, promise, value, cfVars, cw, lam, iot>>

\* cf.createStack calls back in createStack
LegacyCreateStackAnswered ==
  /\ op = "legacy.upsertStack"
  /\ legacy.pc = "create"
  /\ \E err \in TransportAnswers \cup {CreateTransformMsg, AlreadyExistsMsg} :
       LegacyApply(IF err # NoError
                   THEN LegacyCatch(legacy, "create", ErrorOf(err))
                   ELSE LegacyStep(LegacyPollStackCalled(legacy, "create"), "none", Undefined))
  /\ UNCHANGED <<op, cfVars, cw, lam, iot>>

\* cf.updateStack calls back in updateStack, called by updateOrDeploy
LegacyUpdateStackAnswered ==
  /\ op = "legacy.upsertStack"
  /\ legacy.pc = "update"
  /\ \E err \in TransportAnswers \cup {UpdateTransformMsg, NotUpdatableMsg, NoUpdatesMsg} :
       LegacyApply(IF err # NoError /\ ~IsNoUpdates(err)
                   THEN LegacyCatch(legacy, "update", ErrorOf(err))
                   ELSE LegacyStep(LegacyPollStackCalled(legacy, "update"), "none", Undefined))
  /\ UNCHANGED <<op, cfVars, cw, lam, iot>>

\* cf.describeStacks calls back in pollStack
LegacyPollStackDescribed ==
  /\ op \in {"legacy.upsertStack", "legacy.pollStack"}
  /\ legacy.pc = "poll"
  /\ \E a \in LegacyDescribeAnswers :
       LET o == LegacyPollStackOutcome(a)
           v == CASE o = "resolve_empty" -> Undefined
                  [] o = "reject_err"    -> ErrorOf(a.err)
                  [] o = "resolve_data"  -> StackData(a.status, {})
                  [] o = "reject_failed" -> ErrorOf(StackOperationFailed)
                  [] OTHER               -> Undefined
           how == IF o \in {"resolve_empty", "resolve_data"} THEN "resolved" ELSE "rejected"
           l   == [legacy EXCEPT !.pollLast = a]
       IN
       IF o = "wait"
       THEN /\ legacy.seen < MaxWait
            /\ legacy' = [l EXCEPT !.pc = "timer", !.seen = @ + 1]
            /\ UNCHANGED <<promise, value>>
       ELSE LegacyApply(LegacyAfterPollStack(
                          [l EXCEPT !.poll = [state |-> how, value |-> v]], how, v))
  /\ UNCHANGED <<op, cfVars, cw, lam, iot>>

\* The timer set by pollStack fires: pollStack(params) is called again
LegacyPollStackTimeout ==
  /\ op \in {"legacy.upsertStack", "legacy.pollStack"}
  /\ legacy.pc = "timer"
  /\ legacy' = [legacy EXCEPT !.pc = "poll"]
  /\ UNCHANGED <<op, promise, value, cfVars, cw, lam, iot>>

\* cf.createChangeSet calls back in createChangeSet; upsertStack has no catch
\* for its rejection
LegacyCreateChangeSetAnswered ==
  /\ op = "legacy.upsertStack"
  /\ legacy.pc = "createCs"
  /\ \E err \in TransportAnswers \cup {ChangeSetExistsMsg} :
       legacy' = IF err # NoError
                 THEN [legacy EXCEPT !.pc = "stuck"]
                 ELSE LegacyPollChangeSetCalled(legacy, "create")
  /\ UNCHANGED <<op, promise, value, cfVars, cw, lam, iot>>

\* cf.describeChangeSet calls back in pollChangeSet
LegacyPollChangeSetDescribed ==
  /\ op \in {"legacy.upsertStack", "legacy.pollChangeSet"}
  /\ legacy.pc = "pollCs"
  /\ \E a \in LegacyDescribeChangeSetAnswers :
       LET o == LegacyPollChangeSetOutcome(a)
           v == CASE o = "resolve_empty" -> Undefined
                  [] o = "reject_err"    -> ErrorOf(a.err)
                  [] o = "resolve_cs"    -> ChangeSetData(a.status)
                  [] o = "reject_failed" -> ErrorOf(ChangesetCreationFailed)
                  [] OTHER               -> Undefined
           how == IF o \in {"resolve_empty", "resolve_cs"} THEN "resolved" ELSE "rejected"
           l   == [legacy EXCEPT !.csLast = a]
       IN
       IF o = "wait"
       THEN /\ legacy.csSeen < MaxWait
            /\ legacy' = [l EXCEPT !.pc = "timerCs", !.csSeen = @ + 1]
            /\ UNCHANGED <<promise, value>>
       ELSE LegacyApply(LegacyAfterPollChangeSet(
                          [l EXCEPT !.csPoll = [state |-> how, value |-> v]], how, v))
  /\ UNCHANGED <<op, cfVars, cw, lam, iot>>

\* The timer set by pollChangeSet fires
LegacyPollChangeSetTimeout ==
  /\ op \in {"legacy.upsertStack", "legacy.pollChangeSet"}
  /\ legacy.pc = "timerCs"
  /\ legacy' = [legacy EXCEPT !.pc = "pollCs"]
  /\ UNCHANGED <<op, promise, value, cfVars, cw, lam, iot>>

\* The reviewer answers the prompt: deleteChangeSet is called
LegacyPromptAnswered ==
  /\ op = "legacy.upsertStack"
  /\ legacy.pc = "prompt"
  /\ \E performUpdate \in BOOLEAN :
       legacy' = [legacy EXCEPT !.pc = "deleteCs", !.accept = performUpdate]
  /\ UNCHANGED <<op, promise, value, cfVars, cw, lam, iot>>

\* cf.deleteChangeSet calls back in deleteChangeSet; upsertStack has no catch
\* for its rejection
LegacyDeleteChangeSetAnswered ==
  /\ op = "legacy.upsertStack"
  /\ legacy.pc = "deleteCs"
  /\ \E err \in TransportAnswers :
       legacy' = IF err # NoError
                 THEN [legacy EXCEPT !.pc = "stuck"]
                 ELSE LegacyPollChangeSetCalled([legacy EXCEPT !.csSeen = 0], "delete")
  /\ UNCHANGED <<op, promise, value, cfVars, cw, lam, iot>>

\* cli.stderr.on('data') in deployStack: the text is appended to err
LegacyDeployStderrData ==
  /\ op = "legacy.upsertStack"
  /\ legacy.pc = "cli"
  /\ legacy.chunks < MaxChunks
  /\ \E data \in StderrChunks :
       legacy' = [legacy EXCEPT !.err = @ \o data, !.chunks = @ + 1]
  /\ UNCHANGED <<op, promise, value, cfVars, cw, lam, iot>>

\* cli.on('close') in deployStack
LegacyDeployClosed ==
  /\ op = "legacy.upsertStack"
  /\ legacy.pc = "cli"
  /\ \E code \in ExitCodes :
       IF code # 0 /\ ~(IndexOf(legacy.err, NoChangesToDeploy) >= 0)
       THEN LegacyApply(LegacyStep(
              [legacy EXCEPT !.pc = "done",
                             !.deploy = [state |-> "rejected",
                                         value |-> StringOf(StackDeployFailed)]],
              "rejected", StringOf(StackDeployFailed)))
       ELSE LegacyApply(LegacyStep([legacy EXCEPT !.pc = "describe"], "none", Undefined))
  /\ UNCHANGED <<op, cfVars, cw, lam, iot>>

\* cf.describeStacks calls back in describeStack, called by deployStack
LegacyDescribeStackAnswered ==
  /\ op = "legacy.upsertStack"
  /\ legacy.pc = "describe"
  /\ \E a \in LegacyDescribeAnswers :
       LET how == IF a.err # NoError THEN "rejected" ELSE "resolved"
           v   == IF a.err # NoError THEN ErrorOf(a.err) ELSE StackData(a.status, {})
       IN  LegacyApply(LegacyStep(
             [legacy EXCEPT !.pc = "done", !.deploy = [state |-> how, value |-> v]],
             how, v))
  /\ UNCHANGED <<op, cfVars, cw, lam, iot>>

-----------------------------------------------------------------------------
(* Invocations *)

\* pollStack({StackName}) invoked on its own, on a stack in any state
InitPollStack ==
  /\ cli = CliIdle
  /\ SideIdle
  /\ op = "pollStack"
  /\ promise = "pending"
  /\ value = Undefined
  /\ stack \in [status : StackStatuses \cup {Absent}, outputs : {{}},
                tmpl : {"v1"}, target : {"v1"}, prev : {"none"}]
  /\ cfCalls = Count(NoCalls, "describeStacks")
  /\ pollPc = "describe"
  /\ pollPromise = "pending"
  /\ pollValue = Undefined
  /\ pollLast = NoAnswer
  /\ pollSeen = 0
  /\ pollTimers = 0
  /\ pollDescribes = 1
  /\ waitedMs = 0
  /\ bucket = [b \in BucketNames |-> NoBucket]
  /\ bucket0 = bucket
  /\ eb = [b \in BucketNames |-> EbIdle]
  /\ probe = NoAnswer
  /\ dsPc = "idle"
  /\ UpsertIdle
  /\ ChangeSetsIdle

\* emptyBucket("b1") invoked on its own, on a bucket in any state
InitEmptyBucket ==
  /\ cli = CliIdle
  /\ SideIdle
  /\ op = "emptyBucket"
  /\ promise = "pending"
  /\ value = Undefined
  /\ stack = [status |-> Absent, outputs |-> {}, tmpl |-> "v1", target |-> "v1",
               prev |-> "none"]
  /\ cfCalls = NoCalls
  /\ PollIdle
  /\ \E b1 \in Buckets : bucket = [b \in BucketNames |-> IF b = "b1" THEN b1 ELSE NoBucket]
  /\ bucket0 = bucket
  /\ eb = [b \in BucketNames |-> IF b = "b1" THEN EmptyBucketCalled ELSE EbIdle]
  /\ probe = NoAnswer
  /\ dsPc = "idle"
  /\ UpsertIdle
  /\ ChangeSetsIdle

\* The outputs a stack can declare
OutputChoices ==
  { [key |-> <<"Infrastructure", "Bucket">>, value |-> "b1"],
    [key |-> <<"Logs", "Bucket">>,           value |-> "b2"],
    [key |-> <<"Bucket", "Name">>,           value |-> "b2"] }

\* The buckets of a stack: none, or one that holds at most one key
StackBuckets == { x \in Buckets : Cardinality(DOMAIN x.objs) <= 1 }

\* deleteStack("app-stack") invoked on a stack that is absent or at rest
InitDeleteStack ==
  /\ cli = CliIdle
  /\ SideIdle
  /\ op = "deleteStack"
  /\ promise = "pending"
  /\ value = Undefined
  /\ stack \in [status : {Absent, "CREATE_COMPLETE", "UPDATE_ROLLBACK_COMPLETE"},
                outputs : SUBSET OutputChoices, tmpl : {"v1"}, target : {"v1"}, prev : {"none"}]
  /\ cfCalls = Count(NoCalls, "describeStacks")
  /\ PollIdle
  /\ bucket \in [BucketNames -> StackBuckets]
  /\ bucket0 = bucket
  /\ eb = [b \in BucketNames |-> EbIdle]
  /\ probe = NoAnswer
  /\ dsPc = "describe"
  /\ UpsertIdle
  /\ ChangeSetsIdle

\* The arguments of upsertStack: script, and options as an object
Requests ==
  [script : {LocalScript, MissingScript, S3Url("templates", "prefix/", LocalScript)},
   review : BOOLEAN, s3Bucket : BOOLEAN, ct : {"absent", "true", "false"},
   hasTransform : BOOLEAN, tmpl : {"v1", "v2"}]

\* The stacks upsertStack can meet: none, or one at rest that was deployed
\* from the template v1
UpsertStacks ==
  {NoStack}
  \cup [status : {"CREATE_COMPLETE", "UPDATE_ROLLBACK_COMPLETE", "ROLLBACK_COMPLETE"},
        outputs : {TemplateOutputs}, tmpl : {"v1"}, target : {"v1"}, prev : {"none"}]

\* upsertStack("app-stack", script, parameters, options) is about to be invoked
InitUpsertStack ==
  /\ cli = CliIdle
  /\ SideIdle
  /\ op = "upsertStack"
  /\ promise = "pending"
  /\ value = Undefined
  /\ stack \in UpsertStacks
  /\ cfCalls = NoCalls
  /\ PollIdle
  /\ bucket = [b \in BucketNames |-> NoBucket]
  /\ bucket0 = bucket
  /\ eb = [b \in BucketNames |-> EbIdle]
  /\ probe = NoAnswer
  /\ dsPc = "idle"
  /\ req \in Requests
  /\ us = [UsIdle EXCEPT !.pc = "start"]
  /\ call = 1
  /\ stack1 = stack
  /\ ChangeSetsIdle

\* deployStack("app-stack", script, parameters) was invoked: the aws command
\* runs; the template is the deployed one (v1) or another
InitDeployStack ==
  /\ cli = [CliIdle EXCEPT !.pc = "running"]
  /\ SideIdle
  /\ op = "deployStack"
  /\ promise = "pending"
  /\ value = Undefined
  /\ stack \in { [st EXCEPT !.target = t] : st \in UpsertStacks, t \in {"v1", "v2"} }
  /\ cfCalls = NoCalls
  /\ PollIdle
  /\ bucket = [b \in BucketNames |-> NoBucket]
  /\ bucket0 = bucket
  /\ eb = [b \in BucketNames |-> EbIdle]
  /\ probe = NoAnswer
  /\ dsPc = "idle"
  /\ UpsertIdle
  /\ ChangeSetsIdle

\* pollChangeSet({StackName, ChangeSetName}) invoked on its own, on a change
\* set in any state
InitPollChangeSet ==
  /\ cli = CliIdle
  /\ SideIdle
  /\ op = "pollChangeSet"
  /\ promise = "pending"
  /\ value = Undefined
  /\ stack \in UpsertStacks
  /\ cfCalls = Count(NoCalls, "describeChangeSet")
  /\ PollIdle
  /\ bucket = [b \in BucketNames |-> NoBucket]
  /\ bucket0 = bucket
  /\ eb = [b \in BucketNames |-> EbIdle]
  /\ probe = NoAnswer
  /\ dsPc = "idle"
  /\ UpsertIdle
  /\ \E c \in ScriptedChangeSets :
       cs = [n \in ChangeSetNames |-> IF n = "preview" THEN c ELSE NoChangeSet]
  /\ csPoll = [CsPollIdle EXCEPT !.pc = "describe", !.name = "preview",
                                 !.promise = "pending", !.describes = 1]

Init ==
  \/ InitPollChangeSet
  \/ InitPollStack
  \/ InitEmptyBucket
  \/ InitDeleteStack
  \/ InitUpsertStack
  \/ InitDeployStack

Next ==
  \/ PollStackDescribed
  \/ PollStackTimeout
  \/ DeleteStackDescribed
  \/ DeleteStackAnswered
  \/ UpsertStackCalled
  \/ UpsertStackUploaded
  \/ UpsertStackDescribed
  \/ CreateStackAnswered
  \/ UpdateStackAnswered
  \/ CreateChangeSetAnswered
  \/ PollChangeSetDescribed
  \/ PollChangeSetTimeout
  \/ PromptAnswered
  \/ DeleteChangeSetAnswered
  \/ ExecuteChangeSetAnswered
  \/ DeployStderrData
  \/ DeployClosed
  \/ DescribeStackAnswered
  \/ \E b \in BucketNames : EmptyBucketVersioning(b)
  \/ \E b \in BucketNames : EmptyBucketListed(b)
  \/ \E b \in BucketNames : EmptyBucketDeleted(b)
  \/ \E b \in BucketNames, k \in 1..MaxObjects : DeleteVersionedObjectsListed(b, k)
  \/ \E b \in BucketNames, k \in 1..MaxObjects : DeleteVersionedObjectsDeleted(b, k)

Spec == Init /\ [][Next]_vars

\* deleteLogGroups(filter) was invoked: the first describeLogGroups is issued;
\* up to MaxLogGroups log groups match the filter
InitDeleteLogGroups ==
  /\ op = "deleteLogGroups"
  /\ promise = "pending"
  /\ value = Undefined
  /\ stack = NoStack
  /\ cfCalls = NoCalls
  /\ PollIdle
  /\ bucket = [b \in BucketNames |-> NoBucket]
  /\ bucket0 = bucket
  /\ eb = [b \in BucketNames |-> EbIdle]
  /\ probe = NoAnswer
  /\ dsPc = "idle"
  /\ UpsertIdle
  /\ ChangeSetsIdle
  /\ cli = CliIdle
  /\ \E n \in 0..MaxLogGroups :
       cw = [CwIdle EXCEPT !.pc = "list", !.groups0 = 1..n, !.groups = 1..n,
                             !.lists = 1]
  /\ lam = LambdaIdle
  /\ iot = IotIdle
  /\ legacy = LegacyIdle

LogsNext ==
  \/ ListLogGroupsAnswered
  \/ \E g \in LogGroups : DeleteLogGroupAnswered(g)

LogsSpec == InitDeleteLogGroups /\ [][LogsNext]_vars

\* updateFunctionsCode(filter, params) was invoked: the first listFunctions is
\* issued; the account holds up to MaxFunctions functions, some of which have
\* the filter in their name
InitUpdateFunctionsCode ==
  /\ op = "updateFunctionsCode"
  /\ promise = "pending"
  /\ value = Undefined
  /\ stack = NoStack
  /\ cfCalls = NoCalls
  /\ PollIdle
  /\ bucket = [b \in BucketNames |-> NoBucket]
  /\ bucket0 = bucket
  /\ eb = [b \in BucketNames |-> EbIdle]
  /\ probe = NoAnswer
  /\ dsPc = "idle"
  /\ UpsertIdle
  /\ ChangeSetsIdle
  /\ cli = CliIdle
  /\ cw = CwIdle
  /\ iot = IotIdle
  /\ legacy = LegacyIdle
  /\ \E n \in 0..MaxFunctions : \E matches \in [1..n -> BOOLEAN] :
       lam = [LambdaIdle EXCEPT !.pc = "list", !.fns = matches, !.round = 1, !.lists = 1]

LambdaNext ==
  \/ ListFunctionsAnswered
  \/ \E f \in 1..MaxFunctions : UpdateFunctionCodeAnswered(f)

LambdaSpec == InitUpdateFunctionsCode /\ [][LambdaNext]_vars

\* updateIoTPolicies(stackOutput) returned: a getPolicy is issued for each of
\* the up to MaxPolicies keys that include 'IoTPolicyTemplate'; each target
\* policy has up to MaxOldVersions non-default versions. Promise.all of no
\* promise is resolved
InitUpdateIoTPolicies ==
  /\ op = "updateIoTPolicies"
  /\ value = Undefined
  /\ stack = NoStack
  /\ cfCalls = NoCalls
  /\ PollIdle
  /\ bucket = [b \in BucketNames |-> NoBucket]
  /\ bucket0 = bucket
  /\ eb = [b \in BucketNames |-> EbIdle]
  /\ probe = NoAnswer
  /\ dsPc = "idle"
  /\ UpsertIdle
  /\ ChangeSetsIdle
  /\ cli = CliIdle
  /\ cw = CwIdle
  /\ lam = LambdaIdle
  /\ legacy = LegacyIdle
  /\ \E n \in 0..MaxPolicies : \E olds \in [1..n -> SUBSET (1..MaxOldVersions)] :
       /\ iot = [keys |-> 1..n,
                 pol  |-> [p \in 1..MaxPolicies |->
                            IF p \in 1..n
                            THEN [NoPolicy EXCEPT !.pc = "get", !.old0 = olds[p],
                                                  !.old = olds[p]]
                            ELSE NoPolicy]]
       /\ promise = IF n = 0 THEN "resolved" ELSE "pending"

IotNext ==
  \/ \E p \in 1..MaxPolicies : GetPolicyAnswered(p)
  \/ \E p \in 1..MaxPolicies : ListPolicyVersionsAnswered(p)
  \/ \E p \in 1..MaxPolicies : \E v \in 1..MaxOldVersions : DeletePolicyVersionAnswered(p, v)
  \/ \E p \in 1..MaxPolicies : CreatePolicyVersionAnswered(p)

IotSpec == InitUpdateIoTPolicies /\ [][IotNext]_vars

\* everything of src/unnamed at rest
CfIdle ==
  /\ stack = NoStack
  /\ cfCalls = NoCalls
  /\ PollIdle
  /\ bucket = [b \in BucketNames |-> NoBucket]
  /\ bucket0 = bucket
  /\ eb = [b \in BucketNames |-> EbIdle]
  /\ probe = NoAnswer
  /\ dsPc = "idle"
  /\ UpsertIdle
  /\ ChangeSetsIdle
  /\ cli = CliIdle
  /\ cw = CwIdle
  /\ lam = LambdaIdle
  /\ iot = IotIdle

\* upsertStack(name, script, parameters, review) of src/src/cloudFormation.js
\* was invoked, with a script that exists or not: with none the executor
\* throws and the promise is rejected, else describeStacks is issued
InitLegacyUpsertStack ==
  /\ op = "legacy.upsertStack"
  /\ CfIdle
  /\ \E script \in {LocalScript, MissingScript}, review \in BOOLEAN :
       IF FileExists(script)
       THEN /\ promise = "pending"
            /\ value = Undefined
            /\ legacy = [LegacyIdle EXCEPT !.pc = "probe", !.review = review]
       ELSE /\ promise = "rejected"
            /\ value = ErrorOf(FilePathNotDefined)
            /\ legacy = [LegacyIdle EXCEPT !.pc = "done", !.review = review]

\* pollStack(params) of src/src/cloudFormation.js was invoked on its own
InitLegacyPollStack ==
  /\ op = "legacy.pollStack"
  /\ CfIdle
  /\ promise = "pending"
  /\ value = Undefined
  /\ legacy = LegacyPollStackCalled(LegacyIdle, "self")

\* pollChangeSet(params) of src/src/cloudFormation.js was invoked on its own
InitLegacyPollChangeSet ==
  /\ op = "legacy.pollChangeSet"
  /\ CfIdle
  /\ promise = "pending"
  /\ value = Undefined
  /\ legacy = LegacyPollChangeSetCalled(LegacyIdle, "self")

LegacyInit ==
  \/ InitLegacyUpsertStack
  \/ InitLegacyPollStack
  \/ InitLegacyPollChangeSet

LegacyNext ==
  \/ LegacyUpsertStackDescribed
  \/ LegacyCreateStackAnswered
  \/ LegacyUpdateStackAnswered
  \/ LegacyPollStackDescribed
  \/ LegacyPollStackTimeout
  \/ LegacyCreateChangeSetAnswered
  \/ LegacyPollChangeSetDescribed
  \/ LegacyPollChangeSetTimeout
  \/ LegacyPromptAnswered
  \/ LegacyDeleteChangeSetAnswered
  \/ LegacyDeployStderrData
  \/ LegacyDeployClosed
  \/ LegacyDescribeStackAnswered

LegacySpec == LegacyInit /\ [][LegacyNext]_vars

\* pollStack alone, with the scheduling of Node's event loop: a callback that
\* is due runs
PollNext ==
  \/ PollStackDescribed
  \/ PollStackTimeout

PollSpec == InitPollStack /\ [][PollNext]_vars /\ WF_vars(PollNext)

-----------------------------------------------------------------------------
(* pollStack: terminal failure statuses, retries *)

\* C1: when describeStacks answers pollStack with one of the statuses
\* CREATE_FAILED, UPDATE_FAILED, DELETE_FAILED, ROLLBACK_COMPLETE,
\* UPDATE_ROLLBACK_COMPLETE, the promise of pollStack is rejected with the
\* error 'Stack operation failed', and from then on that poll issues no
\* describeStacks and schedules no timer (a later invocation starts its own
\* poll).
C1_FailureStatusRejects ==
  /\ [](pollLast.err = NoError /\ pollLast.status \in FailureStatuses
          => /\ pollPc = "done"
             /\ pollPromise = "rejected"
             /\ pollValue = ErrorOf(StackOperationFailed))
  /\ [][pollLast.err = NoError /\ pollLast.status \in FailureStatuses /\ call' = call
          => pollDescribes' = pollDescribes /\ pollTimers' = pollTimers]_vars

\* a poll that waited and was then answered DELETE_FAILED
C1_Witness ==
  /\ pollLast = [err |-> NoError, status |-> "DELETE_FAILED"]
  /\ pollSeen > 0
  /\ pollPromise = "rejected"

\* The outcome pollStack owes to the answer that ended the poll
SettledAsAnswered ==
  /\ pollLast.err = NoError /\ pollLast.status \in SuccessStatuses
       => pollPromise = "resolved" /\ pollValue = StackData(pollLast.status, stack.outputs)
  /\ pollLast.err = NoError /\ pollLast.status \in FailureStatuses
       => pollPromise = "rejected" /\ pollValue = ErrorOf(StackOperationFailed)

\* C2: a poll answered n times with a status pollStack waits on and then with
\* a terminal status issues n + 1 describeStacks calls, every describe after
\* the first follows a timer of 5000 ms, and the poll settles, with the
\* outcome of the terminal status; n is not limited by pollStack.
C2_RetriesUntilTerminal ==
  /\ [](/\ waitedMs = (pollDescribes - 1) * 5000
        /\ pollTimers \in {pollDescribes - 1, pollDescribes}
        /\ pollPc # "done" => pollPromise = "pending"
        /\ pollPc = "done" => /\ pollDescribes = pollSeen + 1
                              /\ pollTimers = pollSeen
                              /\ SettledAsAnswered)
  /\ <>(pollPc = "done")

\* a poll that waited as long as the provider can make it wait, then resolved
C2_Witness ==
  /\ pollPc = "done"
  /\ pollSeen = MaxWait
  /\ pollLast.status = "UPDATE_COMPLETE"
  /\ promise = "resolved"

-----------------------------------------------------------------------------
(* emptyBucket *)

\* The pages a listing of n objects has
Pages(n) == (n + PageSize - 1) \div PageSize

\* The objects bucket b held when the function was invoked
Objects0(b) == Cardinality(DOMAIN bucket0[b].objs)

\* C3: emptyBucket on a bucket without versioning whose listing has k
\* pages has issued exactly k listObjects calls and k deleteObjects calls when
\* it resolves (three pages: three list calls, three delete calls).
C3_ListsAndDeletesEveryPage ==
  ( /\ op = "emptyBucket"
    /\ bucket0["b1"].exists
    /\ bucket0["b1"].versioning = "Off"
    /\ Objects0("b1") >= 1
    /\ eb["b1"].promise = "resolved" )
  => /\ eb["b1"].lists = Pages(Objects0("b1"))
     /\ eb["b1"].deletes = Pages(Objects0("b1"))

\* An S3 call of emptyBucket(b) is in flight
EmptyBucketBusy(b) ==
  \/ eb[b].pc \in {"versioning", "list", "delete"}
  \/ \E k \in DOMAIN eb[b].kpc : eb[b].kpc[k] \in {"list", "delete"}

\* C4: once a listObjects, listObjectVersions or deleteObjects call of
\* emptyBucket failed, the promise of emptyBucket does not resolve, and it is
\* rejected by the time no call of that emptyBucket is in flight.
C4_FailedCallRejects ==
  \A b \in BucketNames :
    eb[b].failed \cap {"listObjects", "listObjectVersions", "deleteObjects"} # {}
    => /\ eb[b].promise # "resolved"
       /\ ~EmptyBucketBusy(b) => eb[b].promise = "rejected"

-----------------------------------------------------------------------------
(* deleteStack *)

\* C5: deleteStack on an existing stack calls emptyBucket for every output
\* whose key ends with Bucket, all in the callback of the first describe (so
\* that they run together), and for no other bucket; cf.deleteStack is issued
\* once, and only when every one of those emptyBucket promises has resolved;
\* with no matching output it is issued at once and emptyBucket is not called.
C5_EmptiesThenDeletes ==
  op = "deleteStack" =>
    /\ \A b \in BucketNames :
         eb[b].promise # "none"
         <=> (b \in MatchingBuckets /\ probe # NoAnswer /\ probe.err = NoError)
    /\ cfCalls["deleteStack"] <= 1
    /\ cfCalls["deleteStack"] = 1
         => \A b \in MatchingBuckets : eb[b].promise = "resolved"
    /\ (probe # NoAnswer /\ probe.err = NoError /\ MatchingBuckets = {})
         => cfCalls["deleteStack"] = 1
    /\ (probe # NoAnswer /\ probe.err = NoError
          /\ \A b \in MatchingBuckets : eb[b].promise = "resolved")
         => cfCalls["deleteStack"] = 1

\* two buckets being emptied at the same time, then the stack deleted
C5_Witness ==
  /\ op = "deleteStack"
  /\ MatchingBuckets = {"b1", "b2"}
  /\ eb["b1"].deletes > 0
  /\ eb["b2"].deletes > 0
  /\ cfCalls["deleteStack"] = 1
  /\ dsPc = "polling"

\* C6: when the emptying of a bucket failed, cf.deleteStack is not issued and
\* the promise of deleteStack is rejected by the time no call of an
\* emptyBucket is in flight.
C6_EmptyingFailureRejects ==
  ( /\ op = "deleteStack"
    /\ \E b \in MatchingBuckets : eb[b].failed # {} )
  => /\ cfCalls["deleteStack"] = 0
     /\ (\A b \in BucketNames : ~EmptyBucketBusy(b)) => promise = "rejected"

\* C7: when the first describe of deleteStack fails because the stack does
\* not exist, deleteStack resolves, and calls neither emptyBucket nor
\* cf.deleteStack.
C7_DeleteOfMissingStack ==
  ( /\ op = "deleteStack"
    /\ probe.err = StackNotFoundMsg )
  => /\ promise = "resolved"
     /\ value = Undefined
     /\ \A b \in BucketNames : eb[b] = EbIdle
     /\ cfCalls["deleteStack"] = 0
     /\ cfCalls["describeStacks"] = 1

\* deleteStack of a stack that does not exist and whose name is that of a
\* stack with bucket outputs
C7_Witness ==
  /\ op = "deleteStack"
  /\ probe.err = StackNotFoundMsg
  /\ stack.status = Absent
  /\ promise = "resolved"

-----------------------------------------------------------------------------
(* upsertStack: create, repeated call, review without changes *)

\* upsertStack of a local template without transforms, without review, on a
\* stack that does not exist
CreateCase ==
  /\ op = "upsertStack"
  /\ call = 1
  /\ stack1.status = Absent
  /\ FileExists(req.script)
  /\ ~req.review
  /\ ~req.hasTransform
  /\ req.ct # "true"

\* C8: upsertStack on a stack that does not exist, with a local template
\* without transforms and without review, issues createStack exactly once
\* (as soon as the first describe has answered), never updateStack,
\* createChangeSet or executeChangeSet; it polls only after the create,
\* stays pending while the poll waits, and resolves exactly when the poll
\* describes CREATE_COMPLETE, with the described stack and its Outputs.
C8_CreatesOnceThenPolls ==
  CreateCase =>
    /\ cfCalls["createStack"] = (IF probe = NoAnswer THEN 0 ELSE 1)
    /\ cfCalls["updateStack"] = 0
    /\ cfCalls["createChangeSet"] = 0
    /\ cfCalls["executeChangeSet"] = 0
    /\ pollPc # "idle" => cfCalls["createStack"] = 1 /\ us.pc = "pollStack"
    /\ pollPc \in {"describe", "timer"} => promise = "pending"
    /\ (pollPc = "done" /\ pollLast.err = NoError /\ pollLast.status = "CREATE_COMPLETE")
         => promise = "resolved"
    /\ promise = "resolved" =>
         /\ pollPc = "done"
         /\ pollLast.status = "CREATE_COMPLETE"
         /\ stack.status = "CREATE_COMPLETE"
         /\ value = StackData("CREATE_COMPLETE", TemplateOutputs)

\* The create resolved after the poll waited at least once
C8_Witness ==
  /\ CreateCase
  /\ promise = "resolved"
  /\ pollTimers >= 1
  /\ value.outputs = TemplateOutputs
  /\ cfCalls["createStack"] = 1

\* The second of two calls of upsertStack with the same arguments, without
\* review and without transforms, on a stack without drift: the stack rests
\* in a status that accepts updates and was deployed from the same template
SecondCallNoDrift ==
  /\ op = "upsertStack"
  /\ call = 2
  /\ ~req.review
  /\ ~req.hasTransform
  /\ req.ct # "true"
  /\ stack1.status \in Updatable
  /\ stack1.tmpl = req.tmpl

\* C9: the second of two calls of upsertStack in a row with identical inputs
\* (no review, no transforms) on a stack without drift resolves without
\* error once the provider has answered its calls: the rejection of the
\* update with 'No updates are to be performed' is followed by a poll of the
\* stack, the call resolves, and the stack is as it was.
C9_SecondCallIsNoOp ==
  SecondCallNoDrift =>
    /\ stack = stack1
    /\ IsNoUpdates(us.updateErr) =>
         /\ pollPc # "idle"
         /\ promise = "rejected" => pollPromise = "rejected" /\ value = pollValue
    /\ (pollPc = "done" /\ pollLast.err = NoError) => promise = "resolved"

\* C9, the part the code keeps: the rejected update is followed by a poll and
\* nothing changes the stack
C9_NoUpdatesIsPolled ==
  SecondCallNoDrift =>
    /\ stack = stack1
    /\ IsNoUpdates(us.updateErr) =>
         /\ pollPc # "idle"
         /\ promise = "rejected" => pollPromise = "rejected" /\ value = pollValue
    /\ (pollPc = "done" /\ pollLast.err = NoError /\ stack1.status \in SuccessStatuses)
         => promise = "resolved" /\ value = StackData(stack1.status, stack1.outputs)

\* upsertStack with review on an existing stack without drift, once the
\* first describe has found the stack
ReviewNoDrift ==
  /\ op = "upsertStack"
  /\ req.review
  /\ stack1.status \in Updatable
  /\ stack1.tmpl = req.tmpl
  /\ probe # NoAnswer
  /\ probe.err = NoError

-----------------------------------------------------------------------------
(* Change sets of upsertStack: clean-up, order of the review, pollChangeSet *)

\* C11: when the promise of upsertStack has settled, every change set the
\* invocation created (the preview of the review, the change set of
\* applyChangeSet) has been executed or deleteChangeSet has been called for
\* it, also when the change set failed for want of changes (the provider
\* having answered the polls of the change set).
C11_NoChangeSetLeftBehind ==
  (op = "upsertStack" /\ promise \in {"resolved", "rejected"} /\ csPoll.last.err = NoError) =>
    \A n \in us.created : n \in us.deleted \/ (n = "apply" /\ cs["apply"].executed)

\* The review of upsertStack showed the operator a preview change set
ReviewPopulated ==
  /\ op = "upsertStack"
  /\ us.review
  /\ us.prompts >= 1

\* updateStack, a second createChangeSet or executeChangeSet was issued
UpdateIssued ==
  \/ cfCalls["updateStack"] > 0
  \/ cfCalls["createChangeSet"] > 1
  \/ cfCalls["executeChangeSet"] > 0

\* C12: in the review of upsertStack, once the operator was shown the
\* preview change set, deleteChangeSet has been called for the preview and
\* its poll has resolved before updateStack, createChangeSet (UPDATE) or
\* executeChangeSet is issued and before upsertStack rejects with
\* 'Reviewer rejected stack update', whichever the answer of the operator.
C12_DeleteBeforeUpdateOrReject ==
  ReviewPopulated =>
    /\ (UpdateIssued \/ (promise = "rejected" /\ value = StringOf(ReviewerRejected)))
         => /\ cfCalls["deleteChangeSet"] = 1
            /\ "preview" \in us.deleted
            /\ us.deletePoll = "resolved"
    /\ UpdateIssued => us.answer = "yes"
    /\ promise # "pending" => us.deletePoll = "resolved"

\* The operator accepted, the preview was deleted, the update was issued
C12_Witness ==
  /\ ReviewPopulated
  /\ us.answer = "yes"
  /\ us.deletePoll = "resolved"
  /\ cfCalls["updateStack"] = 1
  /\ cs["preview"].status = Absent

\* The StatusReason is one of a change set without changes
NoOpReason(r) == IndexOf(r, NoChangesPhrase) >= 0 \/ IndexOf(r, NoUpdatesPhrase) >= 0

\* describeChangeSet answered the poll with a failed change set
AnsweredFailed == csPoll.last.err = NoError /\ csPoll.last.status = "FAILED"

\* C13: when describeChangeSet answers pollChangeSet with the status FAILED
\* and a StatusReason containing "didn't contain changes" or "No updates are
\* to be performed", the promise of pollChangeSet is resolved with undefined,
\* not rejected, and that poll issues no describeChangeSet and sets no timer
\* afterwards.
C13_NoChangesResolvesEmpty ==
  /\ [](AnsweredFailed /\ NoOpReason(csPoll.last.reason)
          => /\ csPoll.pc = "done"
             /\ csPoll.promise = "resolved"
             /\ csPoll.value = Undefined)
  /\ [][AnsweredFailed /\ NoOpReason(csPoll.last.reason) /\ call' = call
          => csPoll'.describes = csPoll.describes /\ csPoll'.timers = csPoll.timers]_vars

\* A poll that waited and was then answered FAILED, "didn't contain changes"
C13_Witness ==
  /\ AnsweredFailed
  /\ csPoll.last.reason = NoChangesReason
  /\ csPoll.seen >= 1
  /\ csPoll.promise = "resolved"
  /\ csPoll.value = Undefined

\* C14: when describeChangeSet answers pollChangeSet with the status FAILED
\* and a StatusReason containing neither of the two phrases, the promise of
\* pollChangeSet (and with it the one of createChangeSet) is rejected with
\* the error 'Changeset creation failed', the promise of applyChangeSet and
\* of the upsertStack that returned it is rejected with that error, and
\* executeChangeSet is not issued.
C14_FailedChangeSetRejects ==
  (AnsweredFailed /\ ~NoOpReason(csPoll.last.reason)) =>
    /\ csPoll.pc = "done"
    /\ csPoll.promise = "rejected"
    /\ csPoll.value = ErrorOf(ChangesetCreationFailed)
    /\ cfCalls["executeChangeSet"] = 0
    /\ us.csName = "apply" => promise = "rejected" /\ value = ErrorOf(ChangesetCreationFailed)
    /\ promise # "resolved"

\* applyChangeSet rejected after its change set failed with another reason
C14_Witness ==
  /\ AnsweredFailed
  /\ csPoll.last.reason = OtherReason
  /\ us.csName = "apply"
  /\ promise = "rejected"
  /\ value = ErrorOf(ChangesetCreationFailed)

-----------------------------------------------------------------------------
(* emptyBucket: the empty bucket, the bucket with versions *)

\* C15: emptyBucket on a bucket that holds no object issues no deleteObjects
\* and no listObjectVersions call and at most one listObjects call; once
\* that one listing was answered it has resolved, with undefined, and it
\* does not resolve without it.
C15_EmptyBucketDeletesNothing ==
  \A b \in BucketNames :
    (bucket0[b].exists /\ Objects0(b) = 0 /\ eb[b].pc # "idle") =>
      /\ eb[b].deletes = 0
      /\ eb[b].vlists = 0
      /\ eb[b].lists <= 1
      /\ (eb[b].pc = "done" /\ eb[b].failed = {})
           => eb[b].lists = 1 /\ eb[b].promise = "resolved" /\ eb[b].value = Undefined
      /\ eb[b].promise = "resolved" => eb[b].lists = 1

\* emptyBucket("b1") resolved on an empty bucket after one listing
C15_Witness ==
  /\ op = "emptyBucket"
  /\ bucket0["b1"].exists
  /\ Objects0("b1") = 0
  /\ eb["b1"].lists = 1
  /\ eb["b1"].deletes = 0
  /\ promise = "resolved"

\* C16: when emptyBucket resolves on a bucket with versioning, no version of
\* any key the bucket held remains.
C16_DrainsEveryVersion ==
  \A b \in BucketNames :
    (bucket0[b].exists /\ bucket0[b].versioning = "Enabled" /\ eb[b].promise = "resolved")
      => DOMAIN bucket[b].objs = {}

-----------------------------------------------------------------------------
(* upsertStack: the template argument; errors in the review; pollStack errors *)

\* upsertStack was called with script and without the options s3Bucket and
\* containsTransforms
PlainCall(script) ==
  /\ op = "upsertStack"
  /\ call = 1
  /\ req.script = script
  /\ ~req.s3Bucket
  /\ req.ct = "absent"
  /\ us.pc # "start"

\* C17: upsertStack with the path of a local template that does not exist,
\* without s3Bucket and without containsTransforms, issues no call to the
\* provider and returns a promise rejected with '<script> does not exist!';
\* it does not throw.
C17_MissingTemplateRejects ==
  PlainCall(MissingScript) =>
    /\ cfCalls = NoCalls
    /\ promise = "rejected"
    /\ value = ErrorOf(DoesNotExistMsg(MissingScript))

\* C18: upsertStack with an S3 URL for script and no option but review does
\* not read the local file system, puts TemplateURL in the request, and
\* issues the first describeStacks.
C18_S3UrlIsNotRead ==
  PlainCall(S3Url("templates", "prefix/", LocalScript)) =>
    /\ us.reads = 0
    /\ us.field = "TemplateURL"
    /\ promise # "threw"
    /\ cfCalls["describeStacks"] >= 1

\* No call and no timer of the invocation of upsertStack is outstanding
UpsertQuiet ==
  /\ us.pc \notin {"start", "upload", "probe", "createStack", "updateStack",
                    "createChangeSet", "prompt", "deleteChangeSet", "executeChangeSet"}
  /\ csPoll.pc \notin {"describe", "timer"}
  /\ pollPc \notin {"describe", "timer"}

\* In the review, createChangeSet or deleteChangeSet failed, or the poll
\* that follows one of them was rejected
ReviewFailed ==
  /\ op = "upsertStack"
  /\ us.review
  /\ us.csName = "preview"
  /\ \/ us.failed # {}
     \/ csPoll.name = "preview" /\ csPoll.promise = "rejected"

\* C19: in the review of upsertStack, after createChangeSet or its poll
\* failed, or deleteChangeSet or its poll failed, no update is issued and
\* the promise of upsertStack is rejected by the time no call of the
\* invocation is outstanding: it does not stay pending.
C19_ReviewErrorsReject ==
  ReviewFailed =>
    /\ ~UpdateIssued
    /\ UpsertQuiet => promise = "rejected"

\* C20: when describeStacks answers pollStack with an error, the promise of
\* pollStack is resolved with undefined if the message contains 'does not
\* exist' and rejected with that error otherwise, and that poll issues no
\* describeStacks and sets no timer afterwards.
C20_DescribeErrorEndsPoll ==
  /\ [](pollLast.err # NoError
          => /\ pollPc = "done"
             /\ IF IndexOf(pollLast.err, DoesNotExist) >= 0
                THEN pollPromise = "resolved" /\ pollValue = Undefined
                ELSE pollPromise = "rejected" /\ pollValue = ErrorOf(pollLast.err))
  /\ [][pollLast.err # NoError /\ call' = call
          => pollDescribes' = pollDescribes /\ pollTimers' = pollTimers]_vars

\* A poll that waited and was then answered with a throttling error
C20_Witness ==
  /\ pollLast.err = ThrottlingMsg
  /\ pollSeen >= 1
  /\ pollPromise = "rejected"
  /\ pollValue = ErrorOf(ThrottlingMsg)

-----------------------------------------------------------------------------
(* deleteStack: errors of the first describe, the poll after the delete *)

\* C21: when the first describe of deleteStack fails with an error that is
\* not a 'does not exist' error, the promise of deleteStack is rejected with
\* that error; deleteStack resolves without deleting only when the stack
\* does not exist.
C21_ProbeErrorRejects ==
  op = "deleteStack" =>
    /\ (probe # NoAnswer /\ probe.err \in TransportErrors)
         => promise = "rejected" /\ value = ErrorOf(probe.err)
    /\ (promise = "resolved" /\ cfCalls["deleteStack"] = 0) => stack.status = Absent

\* C22: when the promise of deleteStack is resolved after cf.deleteStack was
\* accepted, the poll was answered that the stack does not exist and the
\* stack is gone; it is not resolved on an answer that still reports the
\* status the stack had before the delete.
C22_ResolvesOnlyWhenAbsent ==
  (op = "deleteStack" /\ dsPc = "polling" /\ promise = "resolved") =>
    /\ pollLast.err = StackNotFoundMsg
    /\ stack.status = Absent

-----------------------------------------------------------------------------
(* deployStack: the exit code and the standard error of the command *)

\* the command exited with a code other than 0 and the text of its standard
\* error holds the words "No changes to deploy" nowhere
DeployFailed ==
  /\ cli.code # 0
  /\ \A i \in 1..Len(cli.err) :
       \A j \in i..Len(cli.err) : SubSeq(cli.err, i, j) # NoChangesToDeploy

\* C23: the promise of deployStack is rejected with 'Stack deploy failed'
\* exactly when the command closed with a non-zero exit code and its standard
\* error does not contain 'No changes to deploy'; in every other case the
\* promise settles as the describeStack that follows does, with the stack it
\* described; describeStacks is called only once the command has closed.
C23_DeployFailsOnExitCode ==
  op = "deployStack" =>
    /\ cli.pc = "running" => promise = "pending" /\ cfCalls["describeStacks"] = 0
    /\ (cli.pc \in {"describe", "done"} /\ DeployFailed)
         => /\ promise = "rejected"
            /\ value = StringOf(StackDeployFailed)
            /\ cfCalls["describeStacks"] = 0
    /\ (cli.pc \in {"describe", "done"} /\ ~DeployFailed)
         => /\ cfCalls["describeStacks"] = 1
            /\ value # StringOf(StackDeployFailed)
            /\ cli.pc = "describe" => promise = "pending"
            /\ (cli.pc = "done" /\ cli.last.err # NoError)
                 => promise = "rejected" /\ value = ErrorOf(cli.last.err)
            /\ (cli.pc = "done" /\ cli.last.err = NoError)
                 => /\ promise = "resolved"
                    /\ value = StackData(stack.status, stack.outputs)

\* the command exited with 255 after it wrote "No changes to deploy" in two
\* pieces, and deployStack resolved with the stack described
C23_Witness ==
  /\ op = "deployStack"
  /\ cli.code = 255
  /\ cli.err = <<"No", "changes", "to", "deploy">>
  /\ cli.chunks = 2
  /\ cli.pc = "done"
  /\ promise = "resolved"
  /\ value.status = "CREATE_COMPLETE"

-----------------------------------------------------------------------------
(* upsertStack, deleteStack: the calls that change the stack *)

\* createStack, updateStack, executeChangeSet and deleteStack calls issued in
\* the invocation
Mutations ==
  cfCalls["createStack"] + cfCalls["updateStack"] + cfCalls["executeChangeSet"]
    + cfCalls["deleteStack"]

\* C24: within one invocation of upsertStack or deleteStack at most one of
\* createStack, updateStack, executeChangeSet, deleteStack is ever issued; it
\* is issued only once the first describeStacks has answered, and never once
\* a poll of the stack has started in that invocation, so that no second one
\* is issued before the poll that follows the first has ended.
C24_OneMutationAfterProbe ==
  /\ [](op \in {"upsertStack", "deleteStack"} =>
          /\ Mutations <= 1
          /\ Mutations = 1 => probe # NoAnswer)
  /\ [][(op \in {"upsertStack", "deleteStack"} /\ Mutations' > Mutations)
          => /\ Mutations = 0
             /\ probe' # NoAnswer
             /\ pollPc = "idle" /\ pollPc' = "idle"]_vars

\* upsertStack with review and transforms: the preview was deleted, the
\* change set applied with one executeChangeSet, and the poll of the stack
\* resolved the promise
C24_Witness ==
  /\ op = "upsertStack"
  /\ us.review
  /\ cfCalls["createChangeSet"] = 2
  /\ cfCalls["executeChangeSet"] = 1
  /\ Mutations = 1
  /\ pollPc = "done"
  /\ promise = "resolved"

-----------------------------------------------------------------------------
(* upsertStack: templates with transforms go through a change set *)

\* the poll of the change set created by applyChangeSet resolved with the
\* description of the change set
ApplyPopulated ==
  /\ csPoll.name = "apply"
  /\ csPoll.promise = "resolved"
  /\ csPoll.value.kind = "changeset"

-----------------------------------------------------------------------------
(* upsertStack: the template is uploaded before anything else *)

\* upsertStack was called with the option s3Bucket
Staged ==
  /\ op = "upsertStack"
  /\ req.s3Bucket
  /\ us.pc # "start"

\* containsTransforms as the outer call of upsertStack has it
OuterTransforms == IF req.ct = "absent" THEN req.hasTransform ELSE req.ct = "true"

\* C26: when options.s3Bucket is set, upsertStack performs exactly one
\* upload, and no CloudFormation call is made before it has completed; after
\* the upload upsertStack runs once more, with the S3 URL of the template as
\* script, the same review, the containsTransforms of the outer call and no
\* s3Bucket (no further upload); if the upload fails upsertStack rejects and
\* no CloudFormation call is made.
C26_UploadOnceThenRecurse ==
  Staged =>
    /\ us.uploads = 1
    /\ us.pc = "upload" => cfCalls = NoCalls /\ promise = "pending"
    /\ us.pc # "upload" =>
         \/ /\ us.script = S3Url("templates", "prefix/", req.script)
            /\ us.field = "TemplateURL"
            /\ us.review = req.review
            /\ us.ct = OuterTransforms
         \/ /\ us.script = req.script
            /\ promise = "rejected"
            /\ cfCalls = NoCalls

-----------------------------------------------------------------------------
(* upsertStack: the first describeStacks decides between create and update *)

\* the first describeStacks of upsertStack has answered
Probed ==
  /\ op = "upsertStack"
  /\ probe # NoAnswer

\* C27: upsertStack takes the create branch (createStack, or a change set of
\* type CREATE with transforms) for every error of the first describeStacks,
\* not-found, throttling or authorization alike, and the update branch
\* (review, updateStack, or a change set of type UPDATE) for every answer
\* without error, whatever the status of the stack it reports.
C27_ProbeErrorMeansAbsent ==
  /\ (Probed /\ probe.err # NoError) =>
       /\ cfCalls["updateStack"] = 0
       /\ us.prompts = 0
       /\ us.csType \in {"none", "CREATE"}
       /\ cfCalls["createStack"] = (IF us.ct THEN 0 ELSE 1)
       /\ cfCalls["createChangeSet"] = (IF us.ct THEN 1 ELSE 0)
  /\ (Probed /\ probe.err = NoError) =>
       /\ cfCalls["createStack"] = 0
       /\ us.csType \in {"none", "UPDATE"}
       /\ us.review => cfCalls["createChangeSet"] >= 1
       /\ (~us.review /\ us.ct) => cfCalls["createChangeSet"] = 1
       /\ (~us.review /\ ~us.ct) => cfCalls["updateStack"] = 1

\* the first describeStacks of a stack that exists was throttled: upsertStack
\* went on to createStack, which the provider refused
C27_Witness ==
  /\ Probed
  /\ call = 1
  /\ stack1.status = "CREATE_COMPLETE"
  /\ probe.err = ThrottlingMsg
  /\ cfCalls["createStack"] = 1
  /\ promise = "rejected"
  /\ value = ErrorOf(AlreadyExistsMsg)

-----------------------------------------------------------------------------
(* upsertStack: the operator declines the update *)

\* the operator answered the prompt of the review with no
Declined ==
  /\ op = "upsertStack"
  /\ us.answer = "no"

\* C28: when the operator declines the prompt, upsertStack rejects with
\* 'Reviewer rejected stack update'; updateStack, a second createChangeSet
\* and executeChangeSet are not issued in that invocation, and the stack,
\* when no earlier operation was still in progress on it, is as it was when
\* upsertStack was called.
C28_DeclineRejectsUnchanged ==
  Declined =>
    /\ cfCalls["updateStack"] = 0
    /\ cfCalls["createChangeSet"] = 1
    /\ cfCalls["executeChangeSet"] = 0
    /\ Lifecycle(stack1.status) = {} => stack = stack1
    /\ us.pc \in {"done", "hung"}
         => promise = "rejected" /\ value = StringOf(ReviewerRejected)

-----------------------------------------------------------------------------
(* deleteChangeSet: the poll after the deletion *)

\* C29: the promise of deleteChangeSet resolves only once a describeChangeSet
\* of its poll reported that the change set does not exist, or reported
\* DELETE_COMPLETE; it does not resolve on a describe that still reports the
\* change set in CREATE_COMPLETE.
C29_DeleteResolvesWhenGone ==
  (op = "upsertStack" /\ us.deletePoll = "resolved") =>
    /\ \/ csPoll.last.err = ChangeSetNotFoundMsg
       \/ (csPoll.last.err = NoError /\ csPoll.last.status = "DELETE_COMPLETE")
    /\ cs["preview"].status = Absent

-----------------------------------------------------------------------------
(* pollChangeSet: what each answer of describeChangeSet leads to *)

\* the message holds the phrase
Holds(msg, phrase) ==
  \E i \in 1..Len(msg) : \E j \in i..Len(msg) : SubSeq(msg, i, j) = phrase

\* the timers of pollChangeSet that have fired
ChangeSetTimersFired == csPoll.timers - (IF csPoll.pc = "timer" THEN 1 ELSE 0)

\* C30: pollChangeSet resolves with the description of the change set when
\* describeChangeSet reports CREATE_COMPLETE, UPDATE_COMPLETE or
\* DELETE_COMPLETE; it resolves with nothing on an error whose message holds
\* 'does not exist' and rejects with the error on any other error; on every
\* status other than those three and FAILED it sets one timer of 5000 ms and
\* describes again when it fires, however many times it has done so before
\* (the provider of the model stops answering so after MaxWait times).
C30_PollChangeSetOutcomes ==
  /\ [](/\ csPoll.waitedMs = 5000 * ChangeSetTimersFired
        /\ csPoll.pc = "timer" => csPoll.promise = "pending" /\ ENABLED PollChangeSetTimeout
        /\ op = "pollChangeSet" => promise = csPoll.promise /\ value = csPoll.value)
  /\ [][(csPoll.pc = "describe" /\ csPoll'.pc # "describe" /\ call' = call) =>
          LET a == csPoll'.last IN
          /\ (a.err = NoError /\ a.status \in {"CREATE_COMPLETE", "UPDATE_COMPLETE",
                                                "DELETE_COMPLETE"})
               => /\ csPoll'.pc = "done"
                  /\ csPoll'.promise = "resolved"
                  /\ csPoll'.value = ChangeSetData(a.status)
          /\ (a.err # NoError /\ Holds(a.err, DoesNotExist))
               => /\ csPoll'.pc = "done"
                  /\ csPoll'.promise = "resolved"
                  /\ csPoll'.value = Undefined
          /\ (a.err # NoError /\ ~Holds(a.err, DoesNotExist))
               => /\ csPoll'.pc = "done"
                  /\ csPoll'.promise = "rejected"
                  /\ csPoll'.value = ErrorOf(a.err)
          /\ (a.err = NoError /\ a.status \notin {"CREATE_COMPLETE", "UPDATE_COMPLETE",
                                                   "DELETE_COMPLETE", "FAILED"})
               => /\ csPoll'.pc = "timer"
                  /\ csPoll'.timers = csPoll.timers + 1
                  /\ csPoll'.describes = csPoll.describes
                  /\ csPoll'.promise = "pending"]_vars
  /\ [][(csPoll.pc = "timer" /\ csPoll'.pc # "timer" /\ call' = call) =>
          /\ csPoll'.pc = "describe"
          /\ csPoll'.describes = csPoll.describes + 1
          /\ csPoll'.waitedMs = csPoll.waitedMs + 5000]_vars

\* pollChangeSet on its own waited MaxWait times, 5000 ms each, and resolved
\* when it was shown the change set in DELETE_COMPLETE
C30_Witness ==
  /\ op = "pollChangeSet"
  /\ csPoll.timers = MaxWait
  /\ csPoll.waitedMs = 5000 * MaxWait
  /\ csPoll.last.status = "DELETE_COMPLETE"
  /\ promise = "resolved"
  /\ value = ChangeSetData("DELETE_COMPLETE")

-----------------------------------------------------------------------------
(* emptyBucket: a bucket that does not exist *)

\* C31: emptyBucket on a bucket that does not exist resolves and issues no
\* delete, whichever call reports 'The specified bucket does not exist':
\* getBucketVersioning or the listing of the objects; emptyBucket is never
\* rejected with that error.
C31_MissingBucketResolves ==
  \A b \in BucketNames :
    /\ (eb[b].pc = "done" /\ ~bucket0[b].exists)
         => eb[b].promise = "resolved" /\ eb[b].deletes = 0 /\ eb[b].lists = 0
    /\ (eb[b].promise = "rejected" => eb[b].value # ErrorOf(NoSuchBucketErr))

-----------------------------------------------------------------------------
(* pollStack: statuses it keeps waiting on *)

\* the statuses pollStack has a case for
ListedStatuses == {"CREATE_COMPLETE", "UPDATE_COMPLETE", "ROLLBACK_COMPLETE", "CREATE_FAILED",
                   "UPDATE_FAILED", "DELETE_FAILED", "UPDATE_ROLLBACK_COMPLETE"}

\* the last describeStacks of the poll reported a status pollStack has no case for
AnsweredUnlisted ==
  /\ pollLast # NoAnswer
  /\ pollLast.err = NoError
  /\ pollLast.status \notin ListedStatuses

\* C32: pollStack settles only on one of its seven statuses or on an error of
\* describeStacks; as long as the describes report another status
\* (ROLLBACK_FAILED, UPDATE_ROLLBACK_FAILED and DELETE_COMPLETE included) the
\* poll sets a timer and describes again, and neither its promise nor the
\* promise of the upsertStack or deleteStack waiting for it settles.
C32_UnlistedStatusWaits ==
  /\ [](/\ pollPromise \in {"resolved", "rejected"}
             => pollLast.err # NoError \/ pollLast.status \in ListedStatuses
        /\ AnsweredUnlisted
             => /\ pollPc \in {"timer", "describe"}
                /\ pollPromise = "pending"
                /\ promise = "pending"
        /\ pollPc = "timer" => ENABLED PollStackTimeout)
  /\ [][(pollPc = "describe" /\ AnsweredUnlisted' /\ call' = call)
          => /\ pollPc' = "timer"
             /\ pollTimers' = pollTimers + 1
             /\ pollDescribes' = pollDescribes]_vars

\* the poll of an update was shown UPDATE_ROLLBACK_FAILED MaxWait times and
\* upsertStack is still pending
C32_Witness ==
  /\ op = "upsertStack"
  /\ cfCalls["updateStack"] = 1
  /\ pollLast.status = "UPDATE_ROLLBACK_FAILED"
  /\ pollSeen = MaxWait
  /\ promise = "pending"

-----------------------------------------------------------------------------
(* upsertStack: the poll after an accepted update *)

\* the provider accepted the updateStack or the executeChangeSet (UPDATE) of
\* this invocation
UpdateAccepted ==
  /\ op = "upsertStack"
  /\ \/ /\ cfCalls["updateStack"] = 1
        /\ us.pc \in {"pollStack", "done"}
        /\ us.updateErr = NoError
     \/ /\ cfCalls["executeChangeSet"] = 1
        /\ us.pc \in {"pollStack", "done"}
        /\ us.csType = "UPDATE"
        /\ cs["apply"].executed

\* C33: upsertStack on an existing stack whose updateStack or executeChangeSet
\* was accepted resolves only once the update has completed: not on a
\* describe that still reports the status the stack had before, only on the
\* UPDATE_COMPLETE the update ends in.
C33_ResolvesAfterUpdate ==
  (UpdateAccepted /\ promise = "resolved") =>
    /\ pollLast.status = "UPDATE_COMPLETE"
    /\ stack.status = "UPDATE_COMPLETE"
    /\ stack.tmpl = req.tmpl

-----------------------------------------------------------------------------
(* cloudWatch deleteLogGroups: every page is listed and deleted *)

\* C34: deleteLogGroups follows nextToken through every page, whatever their
\* number: it issues one deleteLogGroup for each log group listed, lists the
\* next page only once every deletion of the page before has resolved,
\* resolves on a page without nextToken, with every log group that matched
\* the filter deleted, and rejects with the error when a describeLogGroups or
\* a deleteLogGroup fails.
C34_DeletesEveryPage ==
  op = "deleteLogGroups" =>
    /\ \A g \in LogGroups : cw.calls[g] <= 1
    /\ cw.pc = "list" => cw.pending = {} /\ promise = "pending"
    /\ (cw.pc = "deleting" /\ cw.pending # {}) => promise = "pending"
    /\ promise = "resolved"
         => /\ cw.groups = {}
            /\ cw.pending = {}
            /\ cw.next = 0
            /\ \A g \in cw.groups0 : cw.calls[g] = 1
    /\ cw.failed # NoError => promise = "rejected" /\ value = ErrorOf(cw.failed)
    /\ promise = "rejected" => cw.failed # NoError

\* every log group was deleted, over three listings or more, and the promise resolved
C34_Witness ==
  /\ op = "deleteLogGroups"
  /\ cw.groups0 = 1..MaxLogGroups
  /\ cw.lists >= 3
  /\ cw.groups = {}
  /\ promise = "resolved"

-----------------------------------------------------------------------------
(* lambda updateFunctionsCode: every matching function is updated *)

\* C35: when the promise of updateFunctionsCode resolves, every function
\* whose name includes the filter has received exactly one updateFunctionCode
\* call, on whichever page of the listing it is, pages after a page without a
\* matching function included.
C35_UpdatesEveryMatch ==
  (op = "updateFunctionsCode" /\ promise = "resolved") =>
    \A f \in DOMAIN lam.fns : lam.fns[f] => lam.calls[f] = 1

-----------------------------------------------------------------------------
(* iot updateIoTPolicies: what the returned promise stands for *)

\* createPolicyVersion for the target policy of key p was issued
CreateIssued(p) ==
  \/ iot.pol[p].pc \in {"create", "done"}
  \/ iot.pol[p].stage = "create"

\* createPolicyVersion is issued only after every non-default version of the
\* target policy was deleted and no deletion is in flight
CreateAfterRemoval ==
  \A p \in iot.keys :
    CreateIssued(p) => iot.pol[p].old = {} /\ iot.pol[p].pending = {}

\* C36: when the promise of updateIoTPolicies is resolved, for every key
\* that includes 'IoTPolicyTemplate' the non-default versions of the target
\* policy are deleted and createPolicyVersion has completed; a failure of
\* _removeOldPolicyVersions or of createPolicyVersion rejects the promise; and
\* createPolicyVersion is never issued before the deletions have finished.
C36_ResolvesAfterPoliciesUpdated ==
  op = "updateIoTPolicies" =>
    /\ promise = "resolved" =>
         \A p \in iot.keys : iot.pol[p].old = {} /\ iot.pol[p].created
    /\ \A p \in iot.keys :
         iot.pol[p].stage \in {"remove", "create"} => promise = "rejected"
    /\ CreateAfterRemoval

-----------------------------------------------------------------------------
(* src/src/cloudFormation.js: errors of the polls, fallback to the command *)

\* C37: in pollStack of src/src/cloudFormation.js a describe error whose
\* message does not contain 'does not exist' rejects the poll with that
\* error, and the poll resolves on an error only when the message contains
\* 'does not exist'.
C37_LegacyPollRejectsOtherErrors ==
  legacy.pollLast.err # NoError =>
    /\ IndexOf(legacy.pollLast.err, DoesNotExist) < 0 =>
         /\ legacy.poll = [state |-> "rejected", value |-> ErrorOf(legacy.pollLast.err)]
         /\ op = "legacy.pollStack" =>
              promise = "rejected" /\ value = ErrorOf(legacy.pollLast.err)
    /\ legacy.poll.state = "resolved" => IndexOf(legacy.pollLast.err, DoesNotExist) >= 0

\* C38: in pollChangeSet of src/src/cloudFormation.js a change set in FAILED
\* whose StatusReason does not contain "didn't contain changes" rejects the
\* poll with 'Changeset creation failed', and upsertStack never takes it for
\* 'no changes to apply'; the poll resolves on FAILED, with undefined, only
\* when the reason contains that text.
C38_LegacyFailedChangeSetRejects ==
  (legacy.csLast.err = NoError /\ legacy.csLast.status = "FAILED") =>
    /\ IndexOf(legacy.csLast.reason, NoChangesPhrase) < 0 =>
         /\ legacy.csPoll = [state |-> "rejected",
                             value |-> ErrorOf(ChangesetCreationFailed)]
         /\ ~legacy.noChanges
    /\ legacy.csPoll.state = "resolved" =>
         /\ IndexOf(legacy.csLast.reason, NoChangesPhrase) >= 0
         /\ legacy.csPoll.value = Undefined

TransformsPhrase == <<"cannot", "be", "used", "with", "templates", "containing",
                      "Transforms">>

\* createStack or updateStack failed with an error that names Transforms
FailedOnTransforms ==
  /\ legacy.caught.kind = "error"
  /\ IndexOf(ErrToString(legacy.caught.msg), TransformsPhrase) >= 0

\* C39: upsertStack of src/src/cloudFormation.js calls deployStack if and
\* only if createStack or updateStack failed with an error whose text contains
\* '... cannot be used with templates containing Transforms', and once; its
\* promise is then settled as the promise of deployStack is; on any other
\* error of createStack or updateStack it is rejected with that error and
\* deployStack is not called.
C39_LegacyFallbackOnlyOnTransforms ==
  op = "legacy.upsertStack" =>
    /\ legacy.deploys <= 1
    /\ legacy.deploys = 1 <=> FailedOnTransforms
    /\ legacy.deploys = 1 =>
         /\ legacy.deploy.state # "none"
         /\ promise = legacy.deploy.state
         /\ legacy.deploy.state # "pending" => value = legacy.deploy.value
    /\ (legacy.caught.kind = "error" /\ ~FailedOnTransforms) =>
         /\ promise = "rejected"
         /\ value = legacy.caught
         /\ legacy.deploys = 0
         /\ legacy.pc = "done"

\* after a review the reviewer accepted, updateStack failed on Transforms,
\* the command exited and describeStack answered: upsertStack resolved with
\* the stack
C39_Witness ==
  /\ op = "legacy.upsertStack"
  /\ legacy.review /\ legacy.accept
  /\ legacy.caught = ErrorOf(UpdateTransformMsg)
  /\ legacy.deploys = 1
  /\ legacy.deploy.state = "resolved"
  /\ promise = "resolved"
  /\ value = legacy.deploy.value

=============================================================================
